---- MODULE Spec2Model ----
(***************************************************************************)
(* Covenant runtime: the symbol store, the query engine (synchronous and   *)
(* handle-based asynchronous execution) and the mutator; the extraction    *)
(* and the requirement validator of covenant-requirements; tokenize of     *)
(* covenant-lexer; and the data graph of covenant-codegen.                 *)
(*                                                                         *)
(* Modelling conventions                                                   *)
(*  - Option<T> is a sequence: <<>> is None, <<x>> is Some(x).             *)
(*  - Result<T,E> is [ok |-> TRUE, val |-> t] or [ok |-> FALSE, err |-> e].*)
(*  - Vec<String> fields of RuntimeSymbol whose order and multiplicity no  *)
(*    operation reads (effects, effect_closure, calls, called_by) are      *)
(*    sets of strings; `contains` is membership.                           *)
(*  - A Rust String that is only compared is a TLA+ string; the byte-wise  *)
(*    order of str::cmp is given by StrOrder.                              *)
(*  - A source text is the set of the substrings parse_snippet and         *)
(*    update_snippet look for that occur in it, with " " when it holds     *)
(*    white space; `contains` is membership, and a text trims to nothing   *)
(*    when it holds nothing but white space.                               *)
(*  - An order_by text is the sequence of its pieces between ':'.          *)
(*  - A where_clause text is <<>> when it is not JSON, else <<v>> with v   *)
(*    the JSON value it denotes.                                           *)
(***************************************************************************)
EXTENDS Integers, Sequences, FiniteSets, TLC

(***************************************************************************)
(* Bounds of the model.                                                    *)
(***************************************************************************)
\* upsert / delete stop once the store's version reaches this value
MaxVersion == 3
\* start_query stops once this many handles were issued
MaxHandle == 2

VARIABLES
    symbols,      \* SymbolStore: id -> RuntimeSymbol (a function on the ids present)
    version,      \* SymbolStore: version counter
    next_handle,  \* QueryEngine.next_handle
    pending,      \* QueryEngine.pending: handle -> AsyncQuery
    issued,       \* history: the handles start_query has returned so far
    ret,          \* the last operation: [op, arg, val] (val is its return value)
    extraction,   \* the ExtractionResult extract returned, handed to validate
    config        \* the ValidatorConfig handed to validate

vars == <<symbols, version, next_handle, pending, issued, ret, extraction, config>>

\* the variables again, the last operation taken apart with its name first:
\* two operations of different names never have their values compared
step == <<ret.op, ret.arg, ret.val, symbols, version, next_handle, pending, issued,
         extraction, config>>

(***************************************************************************)
(* Option and Result                                                       *)
(***************************************************************************)
None == <<>>
Some(x) == <<x>>
IsSome(o) == Len(o) = 1
IsNone(o) == Len(o) = 0
Unwrap(o) == o[1]

Ok(v) == [ok |-> TRUE, val |-> v]
Err(e) == [ok |-> FALSE, err |-> e]

(***************************************************************************)
(* Strings: the byte-wise lexicographic order of the strings compared.     *)
(***************************************************************************)
StrOrder ==
    << "", "<runtime>", "auth.login", "database", "db.query", "enum", "extern",
       "fn", "lib.cov", "main.cov", "math.add", "module", "struct" >>

Rank(s) == CHOOSE i \in 1..Len(StrOrder) : StrOrder[i] = s

\* Ord::cmp as -1 (Less), 0 (Equal), 1 (Greater)
cmp_int(a, b) == IF a < b THEN -1 ELSE IF a = b THEN 0 ELSE 1
cmp_str(a, b) == cmp_int(Rank(a), Rank(b))

(***************************************************************************)
(* RuntimeSymbol and SymbolStore                                           *)
(***************************************************************************)
RuntimeSymbolNew(id, kind) ==
    [ id |-> id, kind |-> kind, file |-> "", line |-> 0,
      effects |-> {}, effect_closure |-> {}, calls |-> {}, called_by |-> {} ]

\* SymbolStore::upsert: the map after inserting or replacing the entry
upsert(syms, sym) ==
    [ i \in (DOMAIN syms) \cup {sym.id} |-> IF i = sym.id THEN sym ELSE syms[i] ]

\* SymbolStore::delete: the map after removing the entry
delete(syms, id) ==
    [ i \in (DOMAIN syms) \ {id} |-> syms[i] ]

\* SymbolStore::recompute_backward_refs: every called_by rebuilt from calls
recompute_backward_refs(syms) ==
    [ i \in DOMAIN syms |->
        [ syms[i] EXCEPT !.called_by = { j \in DOMAIN syms : i \in syms[j].calls } ] ]

contains(syms, id) == id \in DOMAIN syms

get(syms, id) == IF id \in DOMAIN syms THEN Some(syms[id]) ELSE None

\* SymbolFilter: (kind?, has_effect?, calls_fn?, called_by_fn?)
SymbolFilterDefault ==
    [ kind |-> None, has_effect |-> None, calls_fn |-> None, called_by_fn |-> None ]

matches(sym, filter) ==
    /\ IsSome(filter.kind) => sym.kind = Unwrap(filter.kind)
    /\ IsSome(filter.has_effect) => Unwrap(filter.has_effect) \in sym.effect_closure
    /\ IsSome(filter.calls_fn) => Unwrap(filter.calls_fn) \in sym.calls
    /\ IsSome(filter.called_by_fn) => Unwrap(filter.called_by_fn) \in sym.called_by

RECURSIVE ids_in_order(_)
ids_in_order(S) ==
    IF S = {} THEN <<>>
    ELSE LET m == CHOOSE x \in S : \A y \in S : cmp_str(x, y) <= 0
         IN  <<m>> \o ids_in_order(S \ {m})

\* SymbolStore::list: the matching symbols in lexicographic order of id
list(syms, filter) ==
    LET ids == ids_in_order({ i \in DOMAIN syms : matches(syms[i], filter) })
    IN  [ k \in 1..Len(ids) |-> syms[ids[k]] ]

(***************************************************************************)
(* QueryEngine::execute and its helpers                                    *)
(***************************************************************************)
InvalidQuery(msg) == [ kind |-> "InvalidQuery", msg |-> msg ]
QueryCancelled == [ kind |-> "QueryCancelled", msg |-> <<>> ]

\* JSON values (serde_json::Value) as far as apply_where_clause reads them
JStr(s) == [ type |-> "string", str |-> s ]
JNum(n) == [ type |-> "number", num |-> n ]
JObj(f) == [ type |-> "object", fields |-> f ]

as_object(v) == IF v.type = "object" THEN Some(v.fields) ELSE None
as_str(v) == IF v.type = "string" THEN Some(v.str) ELSE None
obj_get(f, key) == IF key \in DOMAIN f THEN Some(f[key]) ELSE None
\* Option::and_then
and_then_as_str(o) == IF IsSome(o) THEN as_str(Unwrap(o)) ELSE None
and_then_as_object(o) == IF IsSome(o) THEN as_object(Unwrap(o)) ELSE None

\* kind_filter that takes a from_type it does not know for "all"
kind_filter_unknown_is_all(from_type) ==
    CASE from_type = "functions" -> Ok(Some("fn"))
      [] from_type = "structs"   -> Ok(Some("struct"))
      [] from_type = "enums"     -> Ok(Some("enum"))
      [] from_type = "modules"   -> Ok(Some("module"))
      [] from_type = "databases" -> Ok(Some("database"))
      [] from_type = "externs"   -> Ok(Some("extern"))
      [] OTHER -> Ok(None)

\* query.rs 88-97: the kind the from_type selects
kind_filter(from_type) ==
    CASE from_type = "functions" -> Ok(Some("fn"))
      [] from_type = "structs"   -> Ok(Some("struct"))
      [] from_type = "enums"     -> Ok(Some("enum"))
      [] from_type = "modules"   -> Ok(Some("module"))
      [] from_type = "databases" -> Ok(Some("database"))
      [] from_type = "externs"   -> Ok(Some("extern"))
      [] from_type \in {"all", "*"} -> Ok(None)
      [] OTHER -> Err(InvalidQuery(<<"Unknown from_type: ", from_type>>))

\* query.rs 219-252: the filter after the where clause was applied
apply_where_clause(filter, where_json) ==
    IF IsNone(where_json)
    THEN Err(InvalidQuery(<<"Invalid where clause JSON: ", "parse error">>))
    ELSE
      LET parsed == Unwrap(where_json)
          objo == as_object(parsed)
      IN  IF IsNone(objo) THEN Ok(filter)
          ELSE
            LET obj == Unwrap(objo)
                effect == and_then_as_str(obj_get(obj, "has_effect"))
                calls == and_then_as_str(obj_get(obj, "calls"))
                called_by == and_then_as_str(obj_get(obj, "called_by"))
                kind == and_then_as_str(obj_get(obj, "kind"))
                f1 == IF IsSome(effect) THEN [filter EXCEPT !.has_effect = effect] ELSE filter
                f2 == IF IsSome(calls) THEN [f1 EXCEPT !.calls_fn = calls] ELSE f1
                f3 == IF IsSome(called_by) THEN [f2 EXCEPT !.called_by_fn = called_by] ELSE f2
                f4 == IF IsSome(kind) THEN [f3 EXCEPT !.kind = kind] ELSE f3
                containso == and_then_as_object(obj_get(obj, "contains"))
            IN  IF IsNone(containso) THEN Ok(f4)
                ELSE
                  LET c == Unwrap(containso)
                      field == and_then_as_str(obj_get(c, "field"))
                      value == and_then_as_str(obj_get(c, "value"))
                  IN  IF field = Some("effects") /\ IsSome(value)
                      THEN Ok([f4 EXCEPT !.has_effect = value])
                      ELSE Ok(f4)

\* the comparison closures of apply_ordering: a.<field>.cmp(&b.<field>)
compare_field(a, b, field) ==
    CASE field = "id"   -> cmp_str(a.id, b.id)
      [] field = "kind" -> cmp_str(a.kind, b.kind)
      [] field = "file" -> cmp_str(a.file, b.file)
      [] field = "line" -> cmp_int(a.line, b.line)

comparator(a, b, field, ascending) ==
    IF ascending THEN compare_field(a, b, field) ELSE compare_field(b, a, field)

\* slice::sort_by (a stable sort): each element goes behind the elements
\* that do not compare Greater than it
RECURSIVE sort_by(_, _, _)
sort_by(s, field, ascending) ==
    IF Len(s) = 0 THEN <<>>
    ELSE LET init == sort_by(SubSeq(s, 1, Len(s) - 1), field, ascending)
             x == s[Len(s)]
             k == Cardinality({ i \in 1..Len(init) :
                                  comparator(init[i], x, field, ascending) <= 0 })
         IN  SubSeq(init, 1, k) \o <<x>> \o SubSeq(init, k + 1, Len(init))

Reverse(s) == [ i \in 1..Len(s) |-> s[Len(s) + 1 - i] ]

\* apply_ordering that sorts ascending and reverses the list for desc
apply_ordering_reversed(syms, order) ==
    LET parts == order
        field == IF Len(parts) >= 1 THEN parts[1] ELSE "id"
        dir == IF Len(parts) >= 2 THEN parts[2] ELSE "asc"
    IN  IF dir \notin {"asc", "desc"}
        THEN Err(InvalidQuery(<<"Invalid order direction: ", dir>>))
        ELSE IF field \notin {"id", "kind", "file", "line"}
        THEN Err(InvalidQuery(<<"Unknown order field: ", field>>))
        ELSE Ok(IF dir = "asc" THEN sort_by(syms, field, TRUE)
                ELSE Reverse(sort_by(syms, field, TRUE)))

\* apply_ordering that checks the direction and then sorts ascending
apply_ordering_ascending_only(syms, order) ==
    LET parts == order
        field == IF Len(parts) >= 1 THEN parts[1] ELSE "id"
        dir == IF Len(parts) >= 2 THEN parts[2] ELSE "asc"
    IN  IF dir \notin {"asc", "desc"}
        THEN Err(InvalidQuery(<<"Invalid order direction: ", dir>>))
        ELSE IF field \notin {"id", "kind", "file", "line"}
        THEN Err(InvalidQuery(<<"Unknown order field: ", field>>))
        ELSE Ok(sort_by(syms, field, TRUE))

\* query.rs 255-299: the symbols after ordering, or InvalidQuery
apply_ordering(syms, order) ==
    LET parts == order
        field == IF Len(parts) >= 1 THEN parts[1] ELSE "id"
        dir == IF Len(parts) >= 2 THEN parts[2] ELSE "asc"
    IN  IF dir \notin {"asc", "desc"}
        THEN Err(InvalidQuery(<<"Invalid order direction: ", dir>>))
        ELSE IF field \notin {"id", "kind", "file", "line"}
        THEN Err(InvalidQuery(<<"Unknown order field: ", field>>))
        ELSE Ok(sort_by(syms, field, dir = "asc"))

Min(a, b) == IF a <= b THEN a ELSE b

\* The crate is built for wasm32 (lib.rs 8-9), where usize is as wide as the
\* u32 of limit and offset: usize::MAX = u32::MAX = 2^32 - 1, scaled down here
\* to UsizeBits bits.
UsizeBits == 3
UsizeMax == 2^UsizeBits - 1

\* a call that does not return: it unwinds with a panic
Panicked(msg) == [ ok |-> FALSE, err |-> [ kind |-> "panic", msg |-> msg ] ]
IsPanic(r) == ~r.ok /\ r.err.kind = "panic"

\* query.rs 123-142: the page of the ordered symbols and has_more. The usize
\* addition start + l panics on overflow in a build with overflow checks and
\* wraps in one without, where the wrapped end lies before start and the
\* slicing symbols[start..end] panics. offset + symbols.len() cannot
\* overflow: the page is empty unless offset < total_count.
paginate(syms, request, ver) ==
    LET total_count == Len(syms)
        offset == IF IsSome(request.offset) THEN Unwrap(request.offset) ELSE 0
        limit == request.limit
        paged == offset > 0 \/ IsSome(limit)
        start == Min(offset, Len(syms))
        sum == IF IsSome(limit) THEN start + Unwrap(limit) ELSE 0
        end == IF IsSome(limit)
               THEN Min(sum % (UsizeMax + 1), Len(syms))
               ELSE Len(syms)
        page == IF paged THEN SubSeq(syms, start + 1, end) ELSE syms
        has_more == offset + Len(page) < total_count
    IN  IF paged /\ sum > UsizeMax
        THEN Panicked(<<"attempt to add with overflow">>)
        ELSE IF paged /\ start > end
        THEN Panicked(<<"slice index starts after its end">>)
        ELSE Ok([ symbols |-> page, version |-> ver, has_more |-> has_more ])

\* query.rs 86-143: QueryEngine::execute
execute(syms, ver, request) ==
    LET kf == kind_filter(request.from_type)
    IN  IF ~kf.ok THEN Err(kf.err)
        ELSE
          LET filter0 == [SymbolFilterDefault EXCEPT !.kind = kf.val]
              wf == IF IsSome(request.where_clause)
                    THEN apply_where_clause(filter0, Unwrap(request.where_clause))
                    ELSE Ok(filter0)
          IN  IF ~wf.ok THEN Err(wf.err)
              ELSE
                LET listed == list(syms, wf.val)
                    ordered == IF IsSome(request.order_by)
                               THEN apply_ordering(listed, Unwrap(request.order_by))
                               ELSE Ok(sort_by(listed, "id", TRUE))
                IN  IF ~ordered.ok THEN Err(ordered.err)
                    ELSE paginate(ordered.val, request, ver)

(***************************************************************************)
(* QueryEngine: the table of asynchronous queries                          *)
(***************************************************************************)
AsyncQuery(request, status, result) ==
    [ request |-> request, status |-> status, result |-> result ]

\* RuntimeError's Display, as get_result renders a stored error
to_string(e) == <<"display", e.kind>> \o e.msg

\* query.rs 146-156: the table after start_query inserted the new handle
start_query(pend, handle, request) ==
    [ h \in (DOMAIN pend) \cup {handle} |->
        IF h = handle THEN AsyncQuery(request, "Pending", None) ELSE pend[h] ]

\* poll_query with Complete where query.rs 163 has Error
poll_query_unknown_is_complete(pend, handle) ==
    IF handle \in DOMAIN pend THEN pend[handle].status ELSE "Complete"

\* query.rs 159-164
poll_query(pend, handle) ==
    IF handle \in DOMAIN pend THEN pend[handle].status ELSE "Error"

\* process_query that marks every processed query Complete
process_query_always_complete(pend, handle, syms, ver) ==
    IF handle \in DOMAIN pend /\ pend[handle].status = "Pending"
    THEN [ pend EXCEPT ![handle].result = Some(execute(syms, ver, pend[handle].request)),
                       ![handle].status = "Complete" ]
    ELSE pend

\* process_query without the test for Pending of query.rs 173
process_query_any_status(pend, handle, syms, ver) ==
    IF handle \in DOMAIN pend
    THEN LET result == execute(syms, ver, pend[handle].request)
             status == IF result.ok THEN "Complete" ELSE "Error"
         IN  [ pend EXCEPT ![handle].result = Some(result), ![handle].status = status ]
    ELSE pend

\* process_query that executes on a store of the engine's own, an empty one,
\* instead of the store it is handed
process_query_own_store(pend, handle, syms, ver) ==
    IF handle \in DOMAIN pend /\ pend[handle].status = "Pending"
    THEN LET result == execute(<<>>, 0, pend[handle].request)
             status == IF result.ok THEN "Complete" ELSE "Error"
         IN  [ pend EXCEPT ![handle].result = Some(result), ![handle].status = status ]
    ELSE pend

\* query.rs 170-192: the table after process_query
process_query(pend, handle, syms, ver) ==
    IF handle \in DOMAIN pend /\ pend[handle].status = "Pending"
    THEN LET request == pend[handle].request
             result == execute(syms, ver, request)
             status == IF result.ok THEN "Complete" ELSE "Error"
         IN  IF IsPanic(result) THEN pend
             ELSE [ pend EXCEPT ![handle].result = Some(result),
                                ![handle].status = status ]
    ELSE pend

\* query.rs 195-201: the value get_result returns
get_result(pend, handle) ==
    IF handle \in DOMAIN pend /\ IsSome(pend[handle].result)
    THEN LET r == Unwrap(pend[handle].result)
         IN  Some(IF r.ok THEN r ELSE Err(to_string(r.err)))
    ELSE None

\* cancel_query without the test for Pending of query.rs 206
cancel_query_any_status(pend, handle) ==
    IF handle \in DOMAIN pend
    THEN [ pend EXCEPT ![handle].status = "Cancelled",
                       ![handle].result = Some(Err(QueryCancelled)) ]
    ELSE pend

\* query.rs 204-211: the table after cancel_query
cancel_query(pend, handle) ==
    IF handle \in DOMAIN pend /\ pend[handle].status = "Pending"
    THEN [ pend EXCEPT ![handle].status = "Cancelled",
                       ![handle].result = Some(Err(QueryCancelled)) ]
    ELSE pend

\* cleanup_completed that drops the Complete queries only
cleanup_completed_complete_only(pend) ==
    [ h \in { k \in DOMAIN pend : pend[k].status # "Complete" } |-> pend[h] ]

\* query.rs 214-216: the table after cleanup_completed
cleanup_completed(pend) ==
    [ h \in { k \in DOMAIN pend : pend[k].status = "Pending" } |-> pend[h] ]

(***************************************************************************)
(* Mutator                                                                 *)
(***************************************************************************)
MutationResultOk(ver) ==
    [ success |-> TRUE, errors |-> <<>>, warnings |-> <<>>, new_version |-> ver ]
MutationResultErr(errors) ==
    [ success |-> FALSE, errors |-> errors, warnings |-> <<>>, new_version |-> 0 ]

\* mutation.rs 67-73
CompileResultErr(errors) == [ success |-> FALSE, errors |-> errors, wasm |-> None ]

\* mutation.rs 170-182: the store is not read; the message is the text of
\* format! with the id in it
compile_snippet(syms, id) ==
    CompileResultErr(<< <<"Compilation not yet implemented for snippet", id>> >>)

\* parse_snippet without the test for the terminating 'end'
parse_snippet_without_end(source) ==
    IF source \subseteq {" "} THEN MutationResultErr(<<"Empty source">>)
    ELSE IF "snippet" \notin source
    THEN MutationResultErr(<<"Source must contain 'snippet' declaration">>)
    ELSE IF "id=" \notin source
    THEN MutationResultErr(<<"Snippet must have an 'id' attribute">>)
    ELSE IF "kind=" \notin source
    THEN MutationResultErr(<<"Snippet must have a 'kind' attribute">>)
    ELSE MutationResultOk(0)

\* mutation.rs 91-120
parse_snippet(source) ==
    IF source \subseteq {" "} THEN MutationResultErr(<<"Empty source">>)
    ELSE IF "snippet" \notin source
    THEN MutationResultErr(<<"Source must contain 'snippet' declaration">>)
    ELSE IF "id=" \notin source
    THEN MutationResultErr(<<"Snippet must have an 'id' attribute">>)
    ELSE IF "kind=" \notin source
    THEN MutationResultErr(<<"Snippet must have a 'kind' attribute">>)
    ELSE IF "end" \notin source
    THEN MutationResultErr(<<"Snippet must be terminated with 'end'">>)
    ELSE MutationResultOk(0)

\* mutation.rs 137-149: the placeholder symbol update_snippet builds
placeholder_symbol(id, source) ==
    LET s0 == [ RuntimeSymbolNew(id, "fn") EXCEPT !.file = "<runtime>" ]
        s1 == IF "effect database" \in source
              THEN [ s0 EXCEPT !.effects = @ \cup {"database"},
                               !.effect_closure = @ \cup {"database"} ]
              ELSE s0
    IN  IF "effect network" \in source
        THEN [ s1 EXCEPT !.effects = @ \cup {"network"},
                         !.effect_closure = @ \cup {"network"} ]
        ELSE s1

(***************************************************************************)
(* Requirement validator (covenant-requirements)                           *)
(*  - A HashMap is a function on its keys; a loop over a HashMap visits    *)
(*    the keys in an order the program does not fix, given here as a       *)
(*    sequence of the keys.                                                *)
(*  - A Vec<String> whose multiplicity matters (covers, covered_by) is a   *)
(*    sequence; spans, texts, statuses and test kinds are left out: the    *)
(*    validator copies them and reads none.                                *)
(*  - coverage_percent, an f64, is the exact fraction [num, den].          *)
(***************************************************************************)
\* covenant_ast::Priority
Critical == <<"Priority", "Critical">>
High == <<"Priority", "High">>
Medium == <<"Priority", "Medium">>
Low == <<"Priority", "Low">>

\* format!("{:?}", priority): the name of the variant
DebugFmt(priority) == priority[2]

\* validator.rs 9-16
priority_ord(p) ==
    CASE p = Critical -> 0
      [] p = High     -> 1
      [] p = Medium   -> 2
      [] p = Low      -> 3

\* validator.rs 37-42 and 45-50
default_config == [ error_min_priority |-> Critical, warning_min_priority |-> High ]
strict == [ error_min_priority |-> Low, warning_min_priority |-> Low ]

\* lib.rs 20-35 and 39-50, as extract builds them (extractor.rs 44-52, 68-74)
RequirementInfo(id, priority, snippet_id) ==
    [ id |-> id, priority |-> priority, snippet_id |-> snippet_id, covered_by |-> <<>> ]
TestInfo(id, covers, snippet_id) ==
    [ id |-> id, covers |-> covers, snippet_id |-> snippet_id ]

\* lib.rs 86-122: RequirementError
UncoveredRequirement(id, priority, snippet_id) ==
    [ type |-> "UncoveredRequirement", id |-> id, priority |-> priority,
      snippet_id |-> snippet_id ]
NonexistentRequirement(test_id, req_id, snippet_id) ==
    [ type |-> "NonexistentRequirement", test_id |-> test_id, req_id |-> req_id,
      snippet_id |-> snippet_id ]
DuplicateRequirement(id, first, second) ==
    [ type |-> "DuplicateRequirement", id |-> id, first |-> first, second |-> second ]
DuplicateTest(id, first, second) ==
    [ type |-> "DuplicateTest", id |-> id, first |-> first, second |-> second ]

\* Vec::contains
VecContains(v, x) == \E i \in 1..Len(v) : v[i] = x

\* the inner loop of build_coverage_links without the test of validator.rs 86
RECURSIVE link_covers_without_dedup(_, _, _, _)
link_covers_without_dedup(acc, test_id, test, k) ==
    IF k > Len(test.covers) THEN acc
    ELSE LET req_id == test.covers[k]
             linked ==
               IF req_id \in DOMAIN acc.requirements
               THEN [ acc EXCEPT !.requirements[req_id].covered_by = Append(@, test_id) ]
               ELSE [ acc EXCEPT !.errors =
                          Append(@, NonexistentRequirement(test_id, req_id,
                                                           test.snippet_id)) ]
         IN  link_covers_without_dedup(linked, test_id, test, k + 1)

\* the inner loop of build_coverage_links skipping the ids that are not
\* requirements instead of reporting them
RECURSIVE link_covers_dangling_silent(_, _, _, _)
link_covers_dangling_silent(acc, test_id, test, k) ==
    IF k > Len(test.covers) THEN acc
    ELSE LET req_id == test.covers[k]
             linked ==
               IF req_id \in DOMAIN acc.requirements
               THEN IF ~VecContains(acc.requirements[req_id].covered_by, test_id)
                    THEN [ acc EXCEPT !.requirements[req_id].covered_by =
                                          Append(@, test_id) ]
                    ELSE acc
               ELSE acc
         IN  link_covers_dangling_silent(linked, test_id, test, k + 1)

\* validator.rs 83-98: the inner loop of build_coverage_links, over the
\* entries of test.covers from the k-th on; acc is (requirements, errors)
RECURSIVE link_covers(_, _, _, _)
link_covers(acc, test_id, test, k) ==
    IF k > Len(test.covers) THEN acc
    ELSE LET req_id == test.covers[k]
             linked ==
               IF req_id \in DOMAIN acc.requirements
               THEN IF ~VecContains(acc.requirements[req_id].covered_by, test_id)
                    THEN [ acc EXCEPT !.requirements[req_id].covered_by =
                                          Append(@, test_id) ]
                    ELSE acc
               ELSE [ acc EXCEPT !.errors =
                          Append(@, NonexistentRequirement(test_id, req_id,
                                                           test.snippet_id)) ]
         IN  link_covers(linked, test_id, test, k + 1)

\* validator.rs 77-100: the requirements and the errors after the loop over
\* the tests, visited in the order test_order from its n-th key on
RECURSIVE link_tests(_, _, _, _)
link_tests(acc, tests, test_order, n) ==
    IF n > Len(test_order) THEN acc
    ELSE LET test_id == test_order[n]
         IN  link_tests(link_covers(acc, test_id, tests[test_id], 1),
                        tests, test_order, n + 1)

build_coverage_links(requirements, tests, errors, test_order) ==
    link_tests([ requirements |-> requirements, errors |-> errors ],
               tests, test_order, 1)

\* check_uncovered_requirements that reports above the threshold only
RECURSIVE check_uncovered_requirements_above(_, _, _, _, _)
check_uncovered_requirements_above(requirements, errors, cfg, req_order, n) ==
    IF n > Len(req_order) THEN errors
    ELSE LET req == requirements[req_order[n]]
             warning_threshold == priority_ord(cfg.warning_min_priority)
             reported ==
               IF Len(req.covered_by) = 0 /\ priority_ord(req.priority) < warning_threshold
               THEN Append(errors, UncoveredRequirement(req.id, req.priority,
                                                        req.snippet_id))
               ELSE errors
         IN  check_uncovered_requirements_above(requirements, reported, cfg,
                                                req_order, n + 1)

\* validator.rs 106-127: the errors after the loop over requirements.values(),
\* visited in the order req_order from its n-th key on
RECURSIVE check_uncovered_requirements(_, _, _, _, _)
check_uncovered_requirements(requirements, errors, cfg, req_order, n) ==
    IF n > Len(req_order) THEN errors
    ELSE LET req == requirements[req_order[n]]
             warning_threshold == priority_ord(cfg.warning_min_priority)
             reported ==
               IF Len(req.covered_by) = 0 /\ priority_ord(req.priority) <= warning_threshold
               THEN Append(errors, UncoveredRequirement(req.id, req.priority,
                                                        req.snippet_id))
               ELSE errors
         IN  check_uncovered_requirements(requirements, reported, cfg, req_order, n + 1)

\* validator.rs 134-138: (covered / total) * 100.0, or 100.0 without
\* requirements
coverage_percent(covered, total) ==
    IF total > 0 THEN [ num |-> covered * 100, den |-> total ]
    ELSE [ num |-> 100, den |-> 1 ]

\* compute_summary that counts every requirement as covered
compute_summary_all_covered(requirements) ==
    LET total == Cardinality(DOMAIN requirements)
        covered == total
        by_priority ==
          [ name \in { DebugFmt(priority) : priority \in {Critical, High, Medium, Low} } |->
              LET priority == CHOOSE q \in {Critical, High, Medium, Low} : DebugFmt(q) = name
                  priority_reqs == { i \in DOMAIN requirements :
                                       requirements[i].priority = priority }
                  priority_total == Cardinality(priority_reqs)
              IN  [ total |-> priority_total, covered |-> priority_total, uncovered |-> 0 ] ]
    IN  [ total_requirements |-> total,
          covered_requirements |-> covered,
          uncovered_requirements |-> total - covered,
          coverage_percent |-> coverage_percent(covered, total),
          by_priority |-> by_priority ]

\* validator.rs 130-165
compute_summary(requirements) ==
    LET total == Cardinality(DOMAIN requirements)
        covered == Cardinality({ i \in DOMAIN requirements :
                                   Len(requirements[i].covered_by) # 0 })
        uncovered == total - covered
        by_priority ==
          [ name \in { DebugFmt(priority) : priority \in {Critical, High, Medium, Low} } |->
              LET priority == CHOOSE q \in {Critical, High, Medium, Low} : DebugFmt(q) = name
                  priority_reqs == { i \in DOMAIN requirements :
                                       requirements[i].priority = priority }
                  priority_total == Cardinality(priority_reqs)
                  priority_covered == Cardinality({ i \in priority_reqs :
                                                     Len(requirements[i].covered_by) # 0 })
              IN  [ total |-> priority_total,
                    covered |-> priority_covered,
                    uncovered |-> priority_total - priority_covered ] ]
    IN  [ total_requirements |-> total,
          covered_requirements |-> covered,
          uncovered_requirements |-> uncovered,
          coverage_percent |-> coverage_percent(covered, total),
          by_priority |-> by_priority ]

\* validator.rs 54-74: the CoverageReport; test_order and req_order are the
\* orders in which the two loops visit the tests and the requirements
validate(ext, cfg, test_order, req_order) ==
    LET linked == build_coverage_links(ext.requirements, ext.tests, ext.errors,
                                       test_order)
        errors == check_uncovered_requirements(linked.requirements, linked.errors,
                                               cfg, req_order, 1)
    IN  [ requirements |-> linked.requirements,
          tests |-> ext.tests,
          summary |-> compute_summary(linked.requirements),
          errors |-> errors ]

\* lib.rs 144-157: the severity of an error by its variant and priority
severity(e) ==
    IF e.type = "UncoveredRequirement"
    THEN CASE e.priority = Critical -> "Error"
           [] e.priority = High     -> "Warning"
           [] OTHER                 -> "Info"
    ELSE "Error"

\* severity_with_config comparing with < where lib.rs 176 and 178 have <=
severity_with_config_below(e, cfg) ==
    IF e.type = "UncoveredRequirement"
    THEN LET prio == priority_ord(e.priority)
             error_threshold == priority_ord(cfg.error_min_priority)
             warning_threshold == priority_ord(cfg.warning_min_priority)
         IN  IF prio < error_threshold THEN "Error"
             ELSE IF prio < warning_threshold THEN "Warning"
             ELSE "Info"
    ELSE "Error"

\* lib.rs 170-190
severity_with_config(e, cfg) ==
    IF e.type = "UncoveredRequirement"
    THEN LET prio == priority_ord(e.priority)
             error_threshold == priority_ord(cfg.error_min_priority)
             warning_threshold == priority_ord(cfg.warning_min_priority)
         IN  IF prio <= error_threshold THEN "Error"
             ELSE IF prio <= warning_threshold THEN "Warning"
             ELSE "Info"
    ELSE "Error"

\* lib.rs 214-216
has_coverage_errors(report) ==
    \E i \in 1..Len(report.errors) : severity(report.errors[i]) = "Error"

\* Iterator::filter(..).collect() with the predicate of lib.rs 220
RECURSIVE FilterErrorSeverity(_)
FilterErrorSeverity(errors) ==
    IF errors = <<>> THEN <<>>
    ELSE IF severity(Head(errors)) = "Error"
         THEN <<Head(errors)>> \o FilterErrorSeverity(Tail(errors))
         ELSE FilterErrorSeverity(Tail(errors))

\* lib.rs 219-221
get_failures(report) == FilterErrorSeverity(report.errors)

(***************************************************************************)
(* Extraction (covenant-requirements, extractor.rs)                        *)
(*  - A Program is [type |-> "Snippets", snippets] or [type |-> "Legacy"]; *)
(*    a Snippet is [id, sections]; a Section is                            *)
(*    [type |-> "Requires", requirements], [type |-> "Tests", tests] or a  *)
(*    section of another type; a requirement is [id, priority] with the    *)
(*    priority an Option, a test is [id, covers].                          *)
(***************************************************************************)
\* extractor.rs 16-18: the empty maps and error list
ExtractionEmpty == [ requirements |-> <<>>, tests |-> <<>>, errors |-> <<>> ]

\* HashMap::insert of a key the map does not hold, or replacing its value
Insert(map, key, value) ==
    [ k \in DOMAIN map \cup {key} |-> IF k = key THEN value ELSE map[k] ]

\* Option::unwrap_or
unwrap_or(o, default) == IF IsSome(o) THEN Unwrap(o) ELSE default

\* the loop over the requirements of a section where a later declaration
\* replaces the stored one
RECURSIVE extract_requirements_last_wins(_, _, _, _)
extract_requirements_last_wins(acc, reqs, snippet_id, k) ==
    IF k > Len(reqs) THEN acc
    ELSE LET req == reqs[k]
             info == RequirementInfo(req.id, unwrap_or(req.priority, Medium), snippet_id)
             next ==
               IF req.id \in DOMAIN acc.requirements
               THEN [ acc EXCEPT
                        !.errors = Append(@, DuplicateRequirement(
                                       req.id, acc.requirements[req.id].snippet_id,
                                       snippet_id)),
                        !.requirements = Insert(@, req.id, info) ]
               ELSE [ acc EXCEPT !.requirements = Insert(@, req.id, info) ]
         IN  extract_requirements_last_wins(next, reqs, snippet_id, k + 1)

\* extractor.rs 43-64: the loop over the requirements of a Requires section,
\* from the k-th on; acc is (requirements, tests, errors)
RECURSIVE extract_requirements(_, _, _, _)
extract_requirements(acc, reqs, snippet_id, k) ==
    IF k > Len(reqs) THEN acc
    ELSE LET req == reqs[k]
             info == RequirementInfo(req.id, unwrap_or(req.priority, Medium), snippet_id)
             next ==
               IF req.id \in DOMAIN acc.requirements
               THEN [ acc EXCEPT
                        !.errors = Append(@, DuplicateRequirement(
                                       req.id, acc.requirements[req.id].snippet_id,
                                       snippet_id)) ]
               ELSE [ acc EXCEPT !.requirements = Insert(@, req.id, info) ]
         IN  extract_requirements(next, reqs, snippet_id, k + 1)

\* extractor.rs 67-86: the loop over the tests of a Tests section
RECURSIVE extract_tests(_, _, _, _)
extract_tests(acc, tests, snippet_id, k) ==
    IF k > Len(tests) THEN acc
    ELSE LET test == tests[k]
             info == TestInfo(test.id, test.covers, snippet_id)
             next ==
               IF test.id \in DOMAIN acc.tests
               THEN [ acc EXCEPT
                        !.errors = Append(@, DuplicateTest(
                                       test.id, acc.tests[test.id].snippet_id,
                                       snippet_id)) ]
               ELSE [ acc EXCEPT !.tests = Insert(@, test.id, info) ]
         IN  extract_tests(next, tests, snippet_id, k + 1)

\* extractor.rs 34-91: the loop over the sections of a snippet, from the
\* n-th on
RECURSIVE extract_from_snippet(_, _, _)
extract_from_snippet(acc, snippet, n) ==
    IF n > Len(snippet.sections) THEN acc
    ELSE LET section == snippet.sections[n]
             next ==
               CASE section.type = "Requires" ->
                      extract_requirements(acc, section.requirements, snippet.id, 1)
                 [] section.type = "Tests" ->
                      extract_tests(acc, section.tests, snippet.id, 1)
                 [] OTHER -> acc
         IN  extract_from_snippet(next, snippet, n + 1)

\* extractor.rs 22-24: the loop over the snippets of a program
RECURSIVE extract_snippets(_, _, _)
extract_snippets(acc, snippets, n) ==
    IF n > Len(snippets) THEN acc
    ELSE extract_snippets(extract_from_snippet(acc, snippets[n], 1), snippets, n + 1)

\* extractor.rs 15-32
extract(program) ==
    IF program.type = "Snippets"
    THEN extract_snippets(ExtractionEmpty, program.snippets, 1)
    ELSE ExtractionEmpty

(***************************************************************************)
(* Lexer (covenant-lexer)                                                  *)
(*  - A source is a sequence of one-character strings; the character at    *)
(*    byte offset b is source[b + 1]; a span is [start, end), in offsets.  *)
(*  - TokenKind and its rule table (token.rs) drive the generated lexer:   *)
(*    longest match, white space and line comments skipped, an Err for     *)
(*    what no rule matches. The span of an Err over the unfinished start   *)
(*    of a string is either its first character or all that was read;      *)
(*    err_all selects which.                                               *)
(***************************************************************************)
Whitespace == {" ", "\t", "\r", "\n"}
IdentStart == {"a", "_"}
Digits == {"5"}

Span(start, end) == [ start |-> start, end |-> end ]
Token(kind, span) == [ kind |-> kind, span |-> span ]

\* the first position from i on whose character is not in S, or the length
\* of the source plus one
RECURSIVE run_end(_, _, _)
run_end(source, i, S) ==
    IF i > Len(source) \/ source[i] \notin S THEN i
    ELSE run_end(source, i + 1, S)

\* the first position from i on where `pattern` starts, or 0
RECURSIVE find(_, _, _)
find(source, i, pattern) ==
    IF i + Len(pattern) - 1 > Len(source) THEN 0
    ELSE IF SubSeq(source, i, i + Len(pattern) - 1) = pattern THEN i
    ELSE find(source, i + 1, pattern)

starts_with(source, i, pattern) ==
    /\ i + Len(pattern) - 1 <= Len(source)
    /\ SubSeq(source, i, i + Len(pattern) - 1) = pattern

\* the rule table: the kind and the end of the longest token that starts at
\* position i, or the kind Err when no rule matches there
longest_match(source, i) ==
    LET c == source[i]
        quote == "\""
        closing3 == find(source, i + 3, <<quote, quote, quote>>)
        closing1 == find(source, i + 1, <<quote>>)
    IN  CASE c \in IdentStart ->
               [ kind |-> "Ident", end |-> run_end(source, i, IdentStart \cup Digits) ]
          [] c \in Digits ->
               [ kind |-> "Int", end |-> run_end(source, i, Digits) ]
          [] c = quote /\ starts_with(source, i, <<quote, quote, quote>>) /\ closing3 > 0 ->
               [ kind |-> "TripleString", end |-> closing3 + 3 ]
          [] c = quote /\ closing1 > 0 /\
               ~(starts_with(source, i, <<quote, quote, quote>>) /\ closing3 > 0) ->
               [ kind |-> "String", end |-> closing1 + 1 ]
          [] c = ":" /\ starts_with(source, i, <<":", "=">>) ->
               [ kind |-> "ColonEq", end |-> i + 2 ]
          [] c = ":" /\ starts_with(source, i, <<":", ":">>) ->
               [ kind |-> "ColonColon", end |-> i + 2 ]
          [] c = ":" /\ ~starts_with(source, i, <<":", "=">>)
                     /\ ~starts_with(source, i, <<":", ":">>) ->
               [ kind |-> "Colon", end |-> i + 1 ]
          [] c = "=" -> [ kind |-> "Eq", end |-> i + 1 ]
          [] c = "/" -> [ kind |-> "Slash", end |-> i + 1 ]
          [] OTHER -> [ kind |-> "Err", end |-> i + 1 ]

\* Lexer::next from position i (the position after the previous token):
\* None at the end of the source, else the result and the span
RECURSIVE lexer_next(_, _, _)
lexer_next(source, i, err_all) ==
    IF i > Len(source) THEN None
    ELSE IF source[i] \in Whitespace
    THEN lexer_next(source, run_end(source, i, Whitespace), err_all)
    ELSE IF starts_with(source, i, <<"/", "/">>)
    THEN lexer_next(source, find(source \o <<"\n">>, i, <<"\n">>), err_all)
    ELSE LET m == longest_match(source, i)
             end == IF m.kind = "Err" /\ source[i] = "\"" /\ err_all
                    THEN Len(source) + 1 ELSE m.end
         IN  Some([ result |-> IF m.kind = "Err" THEN Err(<<>>) ELSE Ok(m.kind),
                    span |-> Span(i - 1, end - 1) ])

\* the loop of tokenize that stops at the first Err
RECURSIVE tokenize_from_stop_at_error(_, _, _, _)
tokenize_from_stop_at_error(source, i, err_all, tokens) ==
    LET next == lexer_next(source, i, err_all)
    IN  IF IsNone(next) THEN tokens
        ELSE IF ~Unwrap(next).result.ok THEN tokens
        ELSE tokenize_from_stop_at_error(
                 source, Unwrap(next).span.end + 1, err_all,
                 Append(tokens, Token(Unwrap(next).result.val, Unwrap(next).span)))

\* lib.rs 20-27: the loop `while let Some(result) = lexer.next()`, the lexer
\* being at position i
RECURSIVE tokenize_from(_, _, _, _)
tokenize_from(source, i, err_all, tokens) ==
    LET next == lexer_next(source, i, err_all)
    IN  IF IsNone(next) THEN tokens
        ELSE LET result == Unwrap(next).result
                 span == Span(Unwrap(next).span.start, Unwrap(next).span.end)
                 kind == IF result.ok THEN result.val ELSE "Error"
             IN  tokenize_from(source, span.end + 1, err_all,
                               Append(tokens, Token(kind, span)))

\* lib.rs 16-37
tokenize(source, err_all) ==
    LET tokens == tokenize_from(source, 1, err_all, <<>>)
        end == Len(source)
    IN  Append(tokens, Token("Eof", Span(end, end)))

(***************************************************************************)
(* Data graph of the code generator (covenant-codegen)                     *)
(*  - The nodes are the snippets, by index in the order of the program;    *)
(*    relations[i] is the sequence of the relations node i declares, each  *)
(*    [to, type] with `to` the index of the target.                        *)
(*  - An edge of the graph is [from, to, type, declared], declared telling *)
(*    a declared relation from a synthesized inverse.                      *)
(*  - Whether a synthesized inverse that equals an edge the graph already  *)
(*    holds is left out is not fixed by the description: dedup selects.    *)
(***************************************************************************)
\* the inverse of a relation type; a type without a named inverse gets inv_
inverse(type) ==
    CASE type = "contains"     -> "contained_by"
      [] type = "contained_by" -> "contains"
      [] type = "describes"    -> "described_by"
      [] type = "described_by" -> "describes"
      [] OTHER                 -> <<"inv_", type>>

Edge(from, to, type, declared) ==
    [ from |-> from, to |-> to, type |-> type, declared |-> declared ]

SameEdge(e, f) == e.from = f.from /\ e.to = f.to /\ e.type = f.type

\* the declared relations of the nodes from the i-th on, in order
RECURSIVE declared_edges(_, _)
declared_edges(relations, i) ==
    IF i > Len(relations) THEN <<>>
    ELSE [ k \in 1..Len(relations[i]) |->
             Edge(i - 1, relations[i][k].to, relations[i][k].type, TRUE) ]
           \o declared_edges(relations, i + 1)

\* the graph after adding the inverses of the declared edges from the n-th on
RECURSIVE add_inverses(_, _, _, _)
add_inverses(edges, declared, n, dedup) ==
    IF n > Len(declared) THEN edges
    ELSE LET d == declared[n]
             inv == Edge(d.to, d.from, inverse(d.type), FALSE)
             present == \E i \in 1..Len(edges) : SameEdge(edges[i], inv)
         IN  add_inverses(IF dedup /\ present THEN edges ELSE Append(edges, inv),
                          declared, n + 1, dedup)

\* a graph of declared edges only
build_graph_declared_only(relations, dedup) ==
    [ node_count |-> Len(relations), edges |-> declared_edges(relations, 1) ]

\* the graph the generator embeds: the declared edges and their inverses
build_graph(relations, dedup) ==
    LET declared == declared_edges(relations, 1)
    IN  [ node_count |-> Len(relations),
          edges |-> add_inverses(declared, declared, 1, dedup) ]

\* the positions, from the n-th on, of the edges whose field (from or to) is
\* node i: the relation array of the node
RECURSIVE rel_array(_, _, _, _)
rel_array(edges, field, i, n) ==
    IF n > Len(edges) THEN <<>>
    ELSE IF edges[n][field] = i
         THEN <<n>> \o rel_array(edges, field, i, n + 1)
         ELSE rel_array(edges, field, i, n + 1)

cov_get_outgoing_count(graph, i) == Len(rel_array(graph.edges, "from", i, 1))
cov_get_incoming_count(graph, i) == Len(rel_array(graph.edges, "to", i, 1))

\* the k-th outgoing relation of node i: the place of its encoding, standing
\* for the fat pointer, or -1
cov_get_outgoing_rel(graph, i, k) ==
    LET out == rel_array(graph.edges, "from", i, 1)
    IN  IF 0 <= k /\ k < Len(out) THEN out[k + 1] ELSE -1

(***************************************************************************)
(* Inputs                                                                  *)
(***************************************************************************)
Ids == {"auth.login", "db.query", "math.add"}

ValidSource == {"snippet", "id=", "kind=", "end"}
\* the empty text, a text of white space, the texts that lack one of the four
\* substrings, and texts that have them all
Sources ==
    { {}, {" "} } \cup
    { ValidSource \ {piece} : piece \in ValidSource } \cup
    { ValidSource, ValidSource \cup {" "},
      ValidSource \cup {"effect database"},
      ValidSource \cup {"effect database", "effect network"} }

\* symbols a caller hands to SymbolStore::upsert (called_by may be stale)
\* the sources recompile_snippet is given: two that fail the validation, two
\* that pass
RecompileSources ==
    { {}, ValidSource \ {"end"}, ValidSource, ValidSource \cup {"effect database"} }

StoreSymbols ==
    { [ id |-> i, kind |-> "fn", file |-> "main.cov", line |-> 1,
        effects |-> {}, effect_closure |-> {}, calls |-> c, called_by |-> b ] :
      i \in Ids, c \in {{}} \cup { {j} : j \in Ids }, b \in {{}, {"math.add"}} } \cup
    { [ id |-> "db.query", kind |-> "struct", file |-> "main.cov", line |-> 1,
        effects |-> {}, effect_closure |-> {}, calls |-> {"auth.login"},
        called_by |-> {} ] }

AllRequest ==
    [ select_clause |-> "all", from_type |-> "all", where_clause |-> None,
      order_by |-> None, limit |-> None, offset |-> None ]

(***************************************************************************)
(* State machine                                                           *)
(***************************************************************************)
Return(op, arg, val) == [ op |-> op, arg |-> arg, val |-> val ]

Init ==
    /\ symbols = <<>>
    /\ version = 0
    /\ next_handle = 1
    /\ pending = <<>>
    /\ issued = {}
    /\ ret = Return("new", <<>>, <<>>)
    /\ extraction = ExtractionEmpty
    /\ config = default_config

engine == <<next_handle, pending, issued>>
store == <<symbols, version>>
validator == <<extraction, config>>

\* SymbolStore::upsert
Upsert(sym) ==
    /\ version < MaxVersion
    /\ symbols' = upsert(symbols, sym)
    /\ version' = version + 1
    /\ ret' = Return("upsert", sym.id, version')
    /\ UNCHANGED <<engine, validator>>

\* SymbolStore::delete
Delete(id) ==
    /\ version < MaxVersion
    /\ IF contains(symbols, id)
       THEN /\ symbols' = delete(symbols, id)
            /\ version' = version + 1
            /\ ret' = Return("delete", id, TRUE)
       ELSE /\ UNCHANGED store
            /\ ret' = Return("delete", id, FALSE)
    /\ UNCHANGED <<engine, validator>>

\* SymbolStore::recompute_backward_refs
RecomputeBackwardRefs ==
    /\ symbols' = recompute_backward_refs(symbols)
    /\ ret' = Return("recompute_backward_refs", <<>>, <<>>)
    /\ UNCHANGED <<version, engine, validator>>

\* SymbolStore::contains
Contains(id) ==
    /\ ret' = Return("contains", id, contains(symbols, id))
    /\ UNCHANGED <<store, engine, validator>>

\* SymbolStore::get
Get(id) ==
    /\ ret' = Return("get", id, get(symbols, id))
    /\ UNCHANGED <<store, engine, validator>>

\* SymbolStore::list
List(filter) ==
    /\ ret' = Return("list", filter, list(symbols, filter))
    /\ UNCHANGED <<store, engine, validator>>

\* Mutator::parse_snippet
ParseSnippet(source) ==
    /\ ret' = Return("parse_snippet", source, parse_snippet(source))
    /\ UNCHANGED <<store, engine, validator>>

\* update_snippet without the recompute_backward_refs call of mutation.rs 152
UpdateSnippetNoRecompute(id, source) ==
    LET parse_result == parse_snippet(source)
    IN  IF ~parse_result.success
        THEN /\ ret' = Return("update_snippet", [id |-> id, source |-> source], parse_result)
             /\ UNCHANGED <<store, engine, validator>>
        ELSE /\ version < MaxVersion
             /\ symbols' = upsert(symbols, placeholder_symbol(id, source))
             /\ version' = version + 1
             /\ ret' = Return("update_snippet", [id |-> id, source |-> source], MutationResultOk(version + 1))
             /\ UNCHANGED <<engine, validator>>

\* update_snippet reporting the version it read before the upsert
UpdateSnippetStaleVersion(id, source) ==
    LET parse_result == parse_snippet(source)
    IN  IF ~parse_result.success
        THEN /\ ret' = Return("update_snippet", [id |-> id, source |-> source], parse_result)
             /\ UNCHANGED <<store, engine, validator>>
        ELSE /\ version < MaxVersion
             /\ symbols' = recompute_backward_refs(
                               upsert(symbols, placeholder_symbol(id, source)))
             /\ version' = version + 1
             /\ ret' = Return("update_snippet", [id |-> id, source |-> source], MutationResultOk(version))
             /\ UNCHANGED <<engine, validator>>

\* update_snippet that keeps the kind and the calls of the symbol it replaces
UpdateSnippetKeepCalls(id, source) ==
    LET parse_result == parse_snippet(source)
        fresh == placeholder_symbol(id, source)
        symbol == IF contains(symbols, id)
                  THEN [ fresh EXCEPT !.kind = symbols[id].kind,
                                      !.calls = symbols[id].calls ]
                  ELSE fresh
    IN  IF ~parse_result.success
        THEN /\ ret' = Return("update_snippet", [id |-> id, source |-> source], parse_result)
             /\ UNCHANGED <<store, engine, validator>>
        ELSE /\ version < MaxVersion
             /\ symbols' = recompute_backward_refs(upsert(symbols, symbol))
             /\ version' = version + 1
             /\ ret' = Return("update_snippet", [id |-> id, source |-> source], MutationResultOk(version + 1))
             /\ UNCHANGED <<engine, validator>>

\* Mutator::update_snippet (mutation.rs 125-155)
UpdateSnippet(id, source) ==
    LET parse_result == parse_snippet(source)
    IN  IF ~parse_result.success
        THEN /\ ret' = Return("update_snippet", [id |-> id, source |-> source], parse_result)
             /\ UNCHANGED <<store, engine, validator>>
        ELSE /\ version < MaxVersion
             /\ symbols' = recompute_backward_refs(
                               upsert(symbols, placeholder_symbol(id, source)))
             /\ version' = version + 1
             /\ ret' = Return("update_snippet", [id |-> id, source |-> source], MutationResultOk(version + 1))
             /\ UNCHANGED <<engine, validator>>

\* recompile_snippet that puts the store back when compile_snippet fails
RecompileSnippetRollback(id, source) ==
    LET update_result == parse_snippet(source)
    IN  IF ~update_result.success
        THEN /\ ret' = Return("recompile_snippet", [id |-> id, source |-> source],
                              CompileResultErr(update_result.errors))
             /\ UNCHANGED <<store, engine, validator>>
        ELSE /\ version < MaxVersion
             /\ ret' = Return("recompile_snippet", [id |-> id, source |-> source],
                              compile_snippet(symbols, id))
             /\ UNCHANGED <<store, engine, validator>>

\* Mutator::recompile_snippet (mutation.rs 185-199): update_snippet, then
\* compile_snippet on the updated store
RecompileSnippet(id, source) ==
    LET update_result == parse_snippet(source)
        updated == recompute_backward_refs(
                       upsert(symbols, placeholder_symbol(id, source)))
    IN  IF ~update_result.success
        THEN /\ ret' = Return("recompile_snippet", [id |-> id, source |-> source],
                              CompileResultErr(update_result.errors))
             /\ UNCHANGED <<store, engine, validator>>
        ELSE /\ version < MaxVersion
             /\ symbols' = updated
             /\ version' = version + 1
             /\ ret' = Return("recompile_snippet", [id |-> id, source |-> source],
                              compile_snippet(updated, id))
             /\ UNCHANGED <<engine, validator>>

\* delete_snippet that reports every call as a deletion
DeleteSnippetAlwaysTrue(id) ==
    /\ IF contains(symbols, id)
       THEN /\ version < MaxVersion
            /\ symbols' = recompute_backward_refs(delete(symbols, id))
            /\ version' = version + 1
       ELSE UNCHANGED store
    /\ ret' = Return("delete_snippet", id, TRUE)
    /\ UNCHANGED <<engine, validator>>

\* Mutator::delete_snippet (mutation.rs 158-164)
DeleteSnippet(id) ==
    /\ IF contains(symbols, id)
       THEN /\ version < MaxVersion
            /\ symbols' = recompute_backward_refs(delete(symbols, id))
            /\ version' = version + 1
            /\ ret' = Return("delete_snippet", id, TRUE)
       ELSE /\ UNCHANGED store
            /\ ret' = Return("delete_snippet", id, FALSE)
    /\ UNCHANGED <<engine, validator>>

\* QueryEngine::execute
Execute(request) ==
    /\ ret' = Return("execute", request, execute(symbols, version, request))
    /\ UNCHANGED <<store, engine, validator>>

\* start_query that numbers the handle by the size of the table
StartQueryBySize(request) ==
    /\ next_handle <= MaxHandle
    /\ pending' = start_query(pending, Cardinality(DOMAIN pending) + 1, request)
    /\ next_handle' = next_handle + 1
    /\ issued' = issued \cup {Cardinality(DOMAIN pending) + 1}
    /\ ret' = Return("start_query", request, Cardinality(DOMAIN pending) + 1)
    /\ UNCHANGED <<store, validator>>

\* QueryEngine::start_query
StartQuery(request) ==
    /\ next_handle <= MaxHandle
    /\ pending' = start_query(pending, next_handle, request)
    /\ next_handle' = next_handle + 1
    /\ issued' = issued \cup {next_handle}
    /\ ret' = Return("start_query", request, next_handle)
    /\ UNCHANGED <<store, validator>>

\* QueryEngine::poll_query
PollQuery(handle) ==
    /\ ret' = Return("poll_query", handle, poll_query(pending, handle))
    /\ UNCHANGED <<store, engine, validator>>

\* QueryEngine::process_query
ProcessQuery(handle) ==
    /\ pending' = process_query(pending, handle, symbols, version)
    /\ ret' = Return("process_query", handle, <<>>)
    /\ UNCHANGED <<store, next_handle, issued, validator>>

\* get_result that takes the query out of the table
GetResultTake(handle) ==
    /\ ret' = Return("get_result", handle, get_result(pending, handle))
    /\ pending' = [ h \in (DOMAIN pending) \ {handle} |-> pending[h] ]
    /\ UNCHANGED <<store, next_handle, issued, validator>>

\* QueryEngine::get_result
GetResult(handle) ==
    /\ ret' = Return("get_result", handle, get_result(pending, handle))
    /\ UNCHANGED <<store, engine, validator>>

\* QueryEngine::cancel_query
CancelQuery(handle) ==
    /\ pending' = cancel_query(pending, handle)
    /\ ret' = Return("cancel_query", handle, <<>>)
    /\ UNCHANGED <<store, next_handle, issued, validator>>

\* QueryEngine::cleanup_completed
CleanupCompleted ==
    /\ pending' = cleanup_completed(pending)
    /\ ret' = Return("cleanup_completed", <<>>, <<>>)
    /\ UNCHANGED <<store, next_handle, issued, validator>>

(***************************************************************************)
(* SpecStore: the symbol store and the mutator, driven with symbols,       *)
(* sources and ids from the input sets; the engine is idle.                *)
(***************************************************************************)
NextStore ==
    \/ \E sym \in StoreSymbols : Upsert(sym)
    \/ \E id \in Ids : Delete(id)
    \/ RecomputeBackwardRefs
    \/ \E id \in Ids : Contains(id)
    \/ \E id \in Ids : Get(id)
    \/ List(SymbolFilterDefault)
    \/ \E source \in Sources : ParseSnippet(source)
    \/ \E id \in Ids, source \in Sources : UpdateSnippet(id, source)
    \/ \E id \in Ids : DeleteSnippet(id)
    \/ \E id \in Ids, source \in RecompileSources : RecompileSnippet(id, source)
    \/ Execute(AllRequest)

SpecStore == Init /\ [][NextStore]_vars

(***************************************************************************)
(* Spec: the query engine driven through its handle interface while the    *)
(* mutator changes the store between the calls.                            *)
(***************************************************************************)
EngineIds == {"auth.login", "db.query"}

UnknownRequest == [ AllRequest EXCEPT !.from_type = "requirements" ]

EngineRequests == { AllRequest, UnknownRequest }

\* the handles the engine can have issued, and one it never issues
Handles == 1..(MaxHandle + 1)

Next ==
    \/ \E id \in EngineIds : UpdateSnippet(id, ValidSource)
    \/ \E id \in EngineIds : DeleteSnippet(id)
    \/ \E request \in EngineRequests : StartQuery(request)
    \/ \E handle \in Handles : PollQuery(handle)
    \/ \E handle \in Handles : ProcessQuery(handle)
    \/ \E handle \in Handles : GetResult(handle)
    \/ \E handle \in Handles : CancelQuery(handle)
    \/ CleanupCompleted

Spec == Init /\ [][Next]_vars

(***************************************************************************)
(* SpecInvalid: the engine handed a valid request and requests invalid in  *)
(* one of their parts, synchronously and through handles, over a store the *)
(* mutator fills.                                                          *)
(***************************************************************************)
InvalidRequests ==
    { AllRequest,
      UnknownRequest,
      [ AllRequest EXCEPT !.where_clause = Some(None) ],
      [ AllRequest EXCEPT !.order_by = Some(<<"id", "up">>) ],
      [ AllRequest EXCEPT !.order_by = Some(<<"name", "asc">>) ] }

NextInvalid ==
    \/ \E id \in EngineIds : UpdateSnippet(id, ValidSource)
    \/ \E request \in InvalidRequests : Execute(request)
    \/ \E request \in InvalidRequests : StartQuery(request)
    \/ \E handle \in Handles : ProcessQuery(handle)
    \/ \E handle \in Handles : GetResult(handle)

SpecInvalid == Init /\ [][NextInvalid]_vars

(***************************************************************************)
(* SpecExec: QueryEngine::execute as a function of the store and the       *)
(* request; the store is any of ExecStores, the request any of Requests.   *)
(***************************************************************************)
\* the small limits and offsets of the requests
MaxLimit == 2
MaxOffset == 1

OptionOf(S) == {None} \cup { Some(x) : x \in S }

ExecSymbols(i) ==
    { [ RuntimeSymbolNew(i, "fn") EXCEPT
          !.file = "main.cov", !.line = 1, !.effect_closure = {"database"},
          !.calls = {"db.query"} ],
      [ RuntimeSymbolNew(i, "fn") EXCEPT !.file = "lib.cov", !.line = 2 ],
      [ RuntimeSymbolNew(i, "struct") EXCEPT !.file = "main.cov", !.line = 2 ] }

ExecStores ==
    UNION { { recompute_backward_refs(f) : f \in { g \in [D -> UNION { ExecSymbols(i) : i \in D }] :
                                                     \A i \in D : g[i].id = i } } :
            D \in SUBSET Ids }

WhereClauses ==
    { None,
      Some(None),
      Some(Some(JObj([has_effect |-> JStr("database")]))),
      Some(Some(JObj([kind |-> JStr("struct"), has_effect |-> JNum(1)]))),
      Some(Some(JObj([calls |-> JStr("db.query")]))),
      Some(Some(JObj([called_by |-> JStr("auth.login")]))),
      Some(Some(JObj([contains |-> JObj([field |-> JStr("effects"),
                                         value |-> JStr("database")])]))),
      Some(Some(JNum(1))) }

OrderBys ==
    {None} \cup
    { Some(<<f, d>>) : f \in {"id", "kind", "file", "line"}, d \in {"asc", "desc"} } \cup
    { Some(<<"kind">>), Some(<<"id", "up">>), Some(<<"name", "asc">>), Some(<<"">>) }

\* the from_type values execute knows, and one it does not
FromTypes ==
    { "functions", "structs", "enums", "modules", "databases", "externs",
      "all", "*", "requirements" }

\* limit and offset are None, a small number, or the largest u32
Requests ==
    [ select_clause : {"all"},
      from_type : FromTypes,
      where_clause : WhereClauses,
      order_by : OrderBys,
      limit : OptionOf((0..MaxLimit) \cup {UsizeMax}),
      offset : OptionOf((0..MaxOffset) \cup {UsizeMax}) ]

InitExec ==
    /\ symbols \in ExecStores
    /\ version = Cardinality(DOMAIN symbols)
    /\ next_handle = 1
    /\ pending = <<>>
    /\ issued = {}
    /\ ret = Return("new", <<>>, <<>>)
    /\ extraction = ExtractionEmpty
    /\ config = default_config

\* execute reads the store and changes nothing, so every call starts from the
\* drawn store: one call per request from each store covers all of them
NextExec == ret.op = "new" /\ \E request \in Requests : Execute(request)

SpecExec == InitExec /\ [][NextExec]_vars

(***************************************************************************)
(* SpecReq: validate as a function of the ExtractionResult and the         *)
(* ValidatorConfig; the extraction is any of ExtractionResults, the        *)
(* configuration any pair of priorities.                                   *)
(***************************************************************************)
ReqIds == {"R-001", "R-002"}
TestIds == {"T-001", "T-002"}
Priorities == {Critical, High, Medium, Low}

\* what a test can list as covered: nothing, known requirements, one twice,
\* and a requirement no snippet declares, once and twice
CoversLists ==
    { <<>>, <<"R-001">>, <<"R-002">>, <<"R-NONEXISTENT">>, <<"R-001", "R-001">>,
      <<"R-001", "R-002">>, <<"R-002", "R-001">>, <<"R-001", "R-NONEXISTENT">>,
      <<"R-NONEXISTENT", "R-NONEXISTENT">> }

\* the maps extract can build: every key is the id of its entry
RequirementMaps ==
    UNION { { m \in [D -> { RequirementInfo(i, priority, "a.fn") :
                              i \in D, priority \in Priorities }] :
                \A i \in D : m[i].id = i } :
            D \in SUBSET ReqIds }
TestMaps ==
    UNION { { m \in [D -> { TestInfo(i, covers, "b.fn") :
                              i \in D, covers \in CoversLists }] :
                \A i \in D : m[i].id = i } :
            D \in SUBSET TestIds }

\* the errors extract hands on: none, the duplicate of a retained
\* requirement, or the duplicate of a retained test
ExtractionErrors(requirements, tests) ==
    { <<>> } \cup
    ( IF "R-001" \in DOMAIN requirements
      THEN { <<DuplicateRequirement("R-001", "a.fn", "b.fn")>> } ELSE {} ) \cup
    ( IF "T-001" \in DOMAIN tests
      THEN { <<DuplicateTest("T-001", "b.fn", "a.fn")>> } ELSE {} )

ExtractionResults ==
    UNION { { [ requirements |-> requirements, tests |-> tests, errors |-> errors ] :
                errors \in ExtractionErrors(requirements, tests) } :
            requirements \in RequirementMaps, tests \in TestMaps }

ValidatorConfigs == [ error_min_priority : Priorities, warning_min_priority : Priorities ]

\* the orders in which a loop can visit the keys S of a HashMap
Orders(S) ==
    { o \in [1..Cardinality(S) -> S] : \A i, j \in 1..Cardinality(S) : o[i] = o[j] => i = j }

InitReq ==
    /\ symbols = <<>>
    /\ version = 0
    /\ next_handle = 1
    /\ pending = <<>>
    /\ issued = {}
    /\ ret = Return("new", <<>>, <<>>)
    /\ extraction \in ExtractionResults
    /\ config \in ValidatorConfigs

\* validate(extraction, &config): the extraction is moved into the call, so
\* it is validated once; the argument records the orders in which the two
\* HashMaps were iterated
Validate(test_order, req_order) ==
    /\ ret.op = "new"
    /\ ret' = Return("validate", [ test_order |-> test_order, req_order |-> req_order ],
                      validate(extraction, config, test_order, req_order))
    /\ UNCHANGED <<store, engine, validator>>

\* has_coverage_errors(&report) on the report validate returned
HasCoverageErrors ==
    /\ ret.op = "validate"
    /\ ret' = Return("has_coverage_errors", ret.val, has_coverage_errors(ret.val))
    /\ UNCHANGED <<store, engine, validator>>

\* get_failures(&report) on the report validate returned
GetFailures ==
    /\ ret.op = "validate"
    /\ ret' = Return("get_failures", ret.val, get_failures(ret.val))
    /\ UNCHANGED <<store, engine, validator>>

NextReq ==
    \/ \E test_order \in Orders(DOMAIN extraction.tests) :
          \E req_order \in Orders(DOMAIN extraction.requirements) :
              Validate(test_order, req_order)
    \/ HasCoverageErrors
    \/ GetFailures

SpecReq == InitReq /\ [][NextReq]_vars

(***************************************************************************)
(* Extraction of the programs of at most two snippets (SpecExtract)        *)
(***************************************************************************)
\* a requirement with and without a priority, a test with and without a
\* covered requirement: two declarations of one id can differ
ReqDecls == [ id : ReqIds, priority : { None, Some(High) } ]
TestDecls == [ id : TestIds, covers : { <<>>, <<"R-001">> } ]

\* sections of one or two declarations, and a section extract passes over
Sections ==
    { [ type |-> "Requires", requirements |-> reqs ] :
        reqs \in { <<d>> : d \in ReqDecls } \cup { <<d, e>> : d, e \in ReqDecls } } \cup
    { [ type |-> "Tests", tests |-> tests ] :
        tests \in { <<d>> : d \in TestDecls } \cup { <<d, e>> : d, e \in TestDecls } } \cup
    { [ type |-> "Body" ] }

Snippet(id, sections) == [ id |-> id, sections |-> sections ]

\* a.fn with up to two sections, alone or followed by b.fn with up to one;
\* the program without snippets; the legacy program
Programs ==
    { [ type |-> "Legacy" ], [ type |-> "Snippets", snippets |-> <<>> ] } \cup
    { [ type |-> "Snippets", snippets |-> <<Snippet("a.fn", sections)>> ] :
        sections \in { <<>> } \cup { <<s>> : s \in Sections }
                             \cup { <<s, t>> : s, t \in Sections } } \cup
    { [ type |-> "Snippets",
        snippets |-> <<Snippet("a.fn", first), Snippet("b.fn", second)>> ] :
        first \in { <<>> } \cup { <<s>> : s \in Sections }
                          \cup { <<s, t>> : s, t \in Sections },
        second \in { <<>> } \cup { <<s>> : s \in Sections } }

\* extract(&program): the result is what validate is given (lib.rs 209-210)
Extract(program) ==
    /\ ret.op = "new"
    /\ extraction' = extract(program)
    /\ ret' = Return("extract", program, extract(program))
    /\ UNCHANGED <<store, engine, config>>

NextExtract == ret.op = "new" /\ \E program \in Programs : Extract(program)

SpecExtract == Init /\ [][NextExtract]_vars

(***************************************************************************)
(* Tokenization of the short sources (SpecLex)                             *)
(***************************************************************************)
MaxSourceLen == 4

\* a letter, a digit, white space, the characters of the line comment, of
\* the string and of the operators : := :: =, and one no rule matches
Chars == {"a", "5", " ", "\n", "/", "\"", ":", "=", "@"}

SourceTexts == UNION { [1..n -> Chars] : n \in 0..MaxSourceLen }

\* tokenize(source)
Tokenize(source, err_all) ==
    /\ ret.op = "new"
    /\ ret' = Return("tokenize", [ source |-> source, err_all |-> err_all ],
                      tokenize(source, err_all))
    /\ UNCHANGED <<store, engine, validator>>

NextLex ==
    ret.op = "new" /\ \E source \in SourceTexts, err_all \in BOOLEAN :
                        Tokenize(source, err_all)

SpecLex == Init /\ [][NextLex]_vars

(***************************************************************************)
(* Data graphs of three snippets (SpecGraph)                               *)
(***************************************************************************)
NodeIndexes == {0, 1, 2}
RelationTypes == {"contains", "contained_by", "describes"}

\* what node i can declare: no relation or one relation to another node,
\* or two different ones
RelationLists(i, most) ==
    LET Rels == [ to : NodeIndexes \ {i}, type : RelationTypes ]
    IN  { <<>> } \cup { <<r>> : r \in Rels }
        \cup { pair \in Rels \X Rels : most >= 2 /\ pair[1] # pair[2] }

\* the generator embedding the graph of a program of three snippets
CompileDataGraph(relations, dedup) ==
    /\ ret.op = "new"
    /\ ret' = Return("compile", [ relations |-> relations, dedup |-> dedup ],
                      build_graph(relations, dedup))
    /\ UNCHANGED <<store, engine, validator>>

NextGraph ==
    ret.op = "new" /\
    \E first \in RelationLists(0, 2), second \in RelationLists(1, 2),
       third \in RelationLists(2, 1), dedup \in BOOLEAN :
        CompileDataGraph(<<first, second, third>>, dedup)

SpecGraph == Init /\ [][NextGraph]_vars

(***************************************************************************)
(* Properties of the symbol store and the mutator (SpecStore)              *)
(***************************************************************************)
\* called_by is the transpose of calls among the symbols of the store
Transpose(syms) ==
    \A a \in DOMAIN syms : \A b \in DOMAIN syms :
        (b \in syms[a].called_by) <=> (a \in syms[b].calls)

AfterRecompute ==
    \/ ret.op = "recompute_backward_refs"
    \/ ret.op = "update_snippet" /\ ret.val.success
    \/ ret.op = "delete_snippet" /\ ret.val = TRUE

\* C1: right after recompute_backward_refs, after every successful
\* update_snippet and after every delete_snippet that deleted, for all symbols
\* a and b of the store b is in called_by(a) iff a is in calls(b).
C1_TransposeAfterRecompute == AfterRecompute => Transpose(symbols)

\* C1 witness: update_snippet has just succeeded on a store in which another
\* symbol is called, so the transpose it leaves is not empty.
C1_Witness ==
    /\ ret.op = "update_snippet" /\ ret.val.success
    /\ \E a \in DOMAIN symbols : \E b \in DOMAIN symbols :
         a # b /\ b \in symbols[a].called_by /\ a \in symbols[b].calls

\* C2: whenever a query executes, called_by is exactly the transpose of calls,
\* also when the store was filled by upsert / delete alone.
C2_TransposeWheneverQueried == ret.op = "execute" => Transpose(symbols)

ReadOnlyOps == {"contains", "get", "list", "execute", "parse_snippet"}

\* C3: the version never decreases; every upsert and every delete that removes
\* a symbol increases it; contains, get, list and query execution leave the
\* store as it is; a successful update_snippet returns the version the store
\* has right after the call, which is greater than the version before it.
C3_VersionMonotone ==
    [][ /\ version' >= version
        /\ ret'.op = "upsert" => version' > version /\ ret'.val = version'
        /\ (ret'.op \in {"delete", "delete_snippet"} /\ ret'.val = TRUE)
              => version' > version
        /\ DOMAIN symbols' # DOMAIN symbols => version' > version
        /\ ret'.op \in ReadOnlyOps => version' = version /\ symbols' = symbols
        /\ (ret'.op = "update_snippet" /\ ret'.val.success)
              => ret'.val.new_version = version' /\ version' > version
      ]_vars

\* C3 witness: a second successful update_snippet has returned the store's
\* version.
C3_Witness ==
    /\ ret.op = "update_snippet" /\ ret.val.success
    /\ ret.val.new_version = version /\ version >= 2

(***************************************************************************)
(* Properties of the asynchronous query interface (Spec)                   *)
(***************************************************************************)
Terminal == {"Complete", "Error", "Cancelled"}

IsPending(pend, h) == h \in DOMAIN pend /\ pend[h].status = "Pending"

\* the other handles of the table are what they were
OthersKept(h) ==
    /\ DOMAIN pending' = DOMAIN pending
    /\ \A k \in (DOMAIN pending) \ {h} : pending'[k] = pending[k]

\* C4: start_query returns a handle greater than every handle returned
\* before (the first is 1), one that was never issued, cleanup_completed or
\* not, and records the request as Pending with no result.
C4_HandlesIncrease ==
    [][ /\ next_handle' >= next_handle
        /\ ret'.op = "start_query" =>
             /\ ret'.val \notin issued
             /\ \A h \in issued : ret'.val > h
             /\ issued = {} => ret'.val = 1
             /\ ret'.val \in DOMAIN pending'
             /\ pending'[ret'.val] = AsyncQuery(ret'.arg, "Pending", None)
      ]_vars

\* C4 witness: start_query has returned 2 after cleanup_completed removed
\* handle 1.
C4_Witness ==
    /\ ret.op = "start_query" /\ ret.val = 2
    /\ 1 \in issued /\ 1 \notin DOMAIN pending

\* C5: process_query on a Pending handle executes the stored request against
\* the store it is given and stores the outcome: Complete when execute
\* succeeds, Error (InvalidQuery for an unknown from_type) when it fails; on
\* any other handle it changes nothing.
C5_ProcessQuery ==
    [][ ret'.op = "process_query" =>
          LET h == ret'.arg
          IN  IF IsPending(pending, h)
              THEN LET r == execute(symbols, version, pending[h].request)
                   IN  /\ OthersKept(h)
                       /\ pending'[h].request = pending[h].request
                       /\ pending'[h].result = Some(r)
                       /\ pending'[h].status = (IF r.ok THEN "Complete" ELSE "Error")
                       /\ pending[h].request = AllRequest
                             => pending'[h].status = "Complete"
                       /\ pending[h].request = UnknownRequest
                             => /\ pending'[h].status = "Error"
                                /\ ~r.ok /\ r.err.kind = "InvalidQuery"
              ELSE pending' = pending
      ]_vars

\* C5 witness: process_query has just acted, and the table holds a query it
\* completed and a query it failed for its unknown from_type.
C5_Witness ==
    /\ ret.op = "process_query"
    /\ \E h \in DOMAIN pending : pending[h].status = "Complete"
    /\ \E h \in DOMAIN pending :
         /\ pending[h].status = "Error"
         /\ Unwrap(pending[h].result).err.kind = "InvalidQuery"

\* C6: cancel_query moves a Pending handle to Cancelled with the
\* QueryCancelled error as its result and leaves a Complete or Error handle
\* as it is; a Cancelled handle always holds that error, and process_query on
\* it changes neither its status nor its result.
C6_CancelQuery ==
    [][ /\ ret'.op = "cancel_query" =>
             LET h == ret'.arg
             IN  IF IsPending(pending, h)
                 THEN /\ OthersKept(h)
                      /\ pending'[h].status = "Cancelled"
                      /\ pending'[h].result = Some(Err(QueryCancelled))
                 ELSE pending' = pending
        /\ \A h \in DOMAIN pending' :
             pending'[h].status = "Cancelled"
                => pending'[h].result = Some(Err(QueryCancelled))
        /\ \A h \in DOMAIN pending :
             (pending[h].status = "Cancelled" /\ ret'.op = "process_query")
                => h \in DOMAIN pending' /\ pending'[h] = pending[h]
      ]_vars

\* C6 witness: process_query has just been called on a cancelled handle.
C6_Witness ==
    /\ ret.op = "process_query"
    /\ ret.arg \in DOMAIN pending
    /\ pending[ret.arg].status = "Cancelled"

\* C7: get_result changes nothing in the engine; it returns None for a
\* Pending or unknown handle and the stored result (an error rendered as
\* text) for a Complete, Error or Cancelled handle, and the same again when
\* repeated.
C7_GetResult ==
    [][ ret'.op = "get_result" =>
          LET h == ret'.arg
          IN  /\ pending' = pending /\ next_handle' = next_handle
              /\ symbols' = symbols /\ version' = version
              /\ (h \notin DOMAIN pending \/ IsPending(pending, h))
                    => ret'.val = None
              /\ (h \in DOMAIN pending /\ pending[h].status \in Terminal)
                    => /\ IsSome(pending[h].result)
                       /\ IsSome(ret'.val)
                       /\ LET stored == Unwrap(pending[h].result)
                              got == Unwrap(ret'.val)
                          IN  /\ got.ok = stored.ok
                              /\ stored.ok => got.val = stored.val
                              /\ ~stored.ok => got.err = to_string(stored.err)
              /\ get_result(pending', h) = ret'.val
      ]_vars

\* C7 witness: get_result has returned the result of a completed query that
\* is still in the table.
C7_Witness ==
    /\ ret.op = "get_result"
    /\ ret.arg \in DOMAIN pending
    /\ pending[ret.arg].status = "Complete"
    /\ IsSome(ret.val) /\ Unwrap(ret.val).ok
    /\ Len(Unwrap(ret.val).val.symbols) >= 1

\* C8: cleanup_completed removes exactly the Complete, Error and Cancelled
\* handles and keeps each Pending handle as it is; no other operation removes
\* a handle.
C8_CleanupCompleted ==
    [][ /\ ret'.op = "cleanup_completed" =>
             /\ DOMAIN pending' = { h \in DOMAIN pending : pending[h].status = "Pending" }
             /\ \A h \in DOMAIN pending' : pending'[h] = pending[h]
        /\ ret'.op # "cleanup_completed" => DOMAIN pending \subseteq DOMAIN pending'
      ]_vars

\* C8 witness: cleanup_completed has removed handle 1 and kept the Pending
\* handle 2.
C8_Witness ==
    /\ ret.op = "cleanup_completed"
    /\ issued = {1, 2} /\ DOMAIN pending = {2}
    /\ pending[2].status = "Pending"

Range(f) == { f[x] : x \in DOMAIN f }

\* C9: the result process_query stores is that of the store at the moment
\* of execution: its version is the store's current version, every symbol in
\* it is a current symbol of the store, and a query for all symbols holds
\* every current symbol (so one upserted after start_query is in it and one
\* deleted after start_query is not).
C9_ObservesStoreAtExecution ==
    [][ \A h \in DOMAIN pending :
          ( /\ ret'.op = "process_query" /\ ret'.arg = h
            /\ pending[h].status = "Pending"
            /\ pending'[h].status = "Complete" )
          => LET r == Unwrap(pending'[h].result).val
             IN  /\ r.version = version
                 /\ Range(r.symbols) \subseteq Range(symbols)
                 /\ pending[h].request = AllRequest
                       => Range(r.symbols) = Range(symbols)
      ]_vars

\* C9 witness: two queries for all symbols, the one started first executed
\* later, at a higher version, and holding a symbol the other result lacks.
C9_Witness ==
    \E h1 \in DOMAIN pending : \E h2 \in DOMAIN pending :
        /\ h1 < h2
        /\ pending[h1].request = AllRequest /\ pending[h2].request = AllRequest
        /\ pending[h1].status = "Complete" /\ pending[h2].status = "Complete"
        /\ LET r1 == Unwrap(pending[h1].result).val
               r2 == Unwrap(pending[h2].result).val
           IN  /\ r1.version > r2.version
               /\ \E s \in Range(r1.symbols) :
                    \A t \in Range(r2.symbols) : t.id # s.id

(***************************************************************************)
(* Properties of QueryEngine::execute (SpecExec)                           *)
(***************************************************************************)
\* the field and the direction a request that executes is ordered by
OrderField(request) ==
    IF IsSome(request.order_by) /\ Len(Unwrap(request.order_by)) >= 1
    THEN Unwrap(request.order_by)[1] ELSE "id"
OrderAscending(request) ==
    IF IsSome(request.order_by) /\ Len(Unwrap(request.order_by)) >= 2
    THEN Unwrap(request.order_by)[2] = "asc" ELSE TRUE

\* a comes strictly before b: by the field in the direction asked, and by id
\* among the symbols that tie on the field
StrictlyBefore(a, b, field, ascending) ==
    LET c == comparator(a, b, field, ascending)
    IN  c < 0 \/ (c = 0 /\ cmp_str(a.id, b.id) < 0)

\* the symbols a request that executes selects
MatchingSymbols(syms, request) ==
    LET filter0 == [SymbolFilterDefault EXCEPT !.kind = kind_filter(request.from_type).val]
        filter == IF IsSome(request.where_clause)
                  THEN apply_where_clause(filter0, Unwrap(request.where_clause)).val
                  ELSE filter0
    IN  { sym \in Range(syms) : matches(sym, filter) }

\* C10: what execute returns is fixed by the content of the store and the
\* request, whatever ties there are on the order_by field: the i-th symbol
\* returned is the selected symbol that has exactly offset + i - 1 selected
\* symbols before it in the order by the order_by field (id when absent) in
\* the direction asked, ties taken in ascending id; has_more tells whether
\* selected symbols remain behind the last one returned, and the version is
\* the store's. Two executions on the same store therefore return the same
\* symbols in the same order, the same has_more and the same version.
C10_Deterministic ==
    (ret.op = "execute" /\ ret.val.ok) =>
        LET r == ret.val.val
            request == ret.arg
            selected == MatchingSymbols(symbols, request)
            offset == IF IsSome(request.offset) THEN Unwrap(request.offset) ELSE 0
        IN  /\ r.version = version
            /\ \A i \in 1..Len(r.symbols) :
                 /\ r.symbols[i] \in selected
                 /\ Cardinality({ t \in selected :
                                    StrictlyBefore(t, r.symbols[i], OrderField(request),
                                                   OrderAscending(request)) })
                      = offset + i - 1
            /\ r.has_more <=> (offset + Len(r.symbols) < Cardinality(selected))

\* C10 witness: a query ordered by kind, descending, has returned three
\* symbols of which two tie on kind.
C10_Witness ==
    /\ ret.op = "execute" /\ ret.val.ok
    /\ ret.arg.order_by = Some(<<"kind", "desc">>)
    /\ LET r == ret.val.val
       IN  /\ Len(r.symbols) = 3
           /\ r.symbols[1].kind # r.symbols[2].kind
           /\ r.symbols[2].kind = r.symbols[3].kind

\* the request without its pagination
Unpaginated(request) == [ request EXCEPT !.limit = None, !.offset = None ]

\* C11: pagination. With the matching symbols sorted into a list of length
\* total (what the request returns without limit and offset), execute returns
\* exactly the elements at the positions [min(offset, total),
\* min(offset + limit, total)) of that list, to the end when limit is absent
\* and from 0 when offset is absent; so at most limit symbols are returned,
\* and has_more is true iff offset + number returned < total. This for every
\* offset and limit, limit 0 and offsets beyond total included.
C11_Pagination ==
    ret.op = "execute" =>
        LET request == ret.arg
            full == execute(symbols, version, Unpaginated(request))
        IN  full.ok =>
              LET sorted == full.val.symbols
                  total == Len(sorted)
                  offset == IF IsSome(request.offset) THEN Unwrap(request.offset) ELSE 0
                  lo == Min(offset, total)
                  hi == IF IsSome(request.limit)
                        THEN Min(offset + Unwrap(request.limit), total)
                        ELSE total
              IN  /\ ret.val.ok
                  /\ ret.val.val.symbols = SubSeq(sorted, lo + 1, hi)
                  /\ IsSome(request.limit) =>
                        Len(ret.val.val.symbols) <= Unwrap(request.limit)
                  /\ ret.val.val.has_more <=>
                        (offset + Len(ret.val.val.symbols) < total)

\* s is ordered by the field: non-decreasing when ascending, non-increasing
\* when not
OrderedBy(s, field, ascending) ==
    \A i \in 1..(Len(s) - 1) :
        IF ascending THEN compare_field(s[i], s[i + 1], field) <= 0
        ELSE compare_field(s[i], s[i + 1], field) >= 0

WithOrder(request, order) == [ request EXCEPT !.order_by = Some(order) ]

KindOfFromType(from_type) ==
    CASE from_type = "functions" -> "fn"
      [] from_type = "structs"   -> "struct"
      [] from_type = "enums"     -> "enum"
      [] from_type = "modules"   -> "module"
      [] from_type = "databases" -> "database"
      [] from_type = "externs"   -> "extern"

\* C13: from_type is a kind filter. For every store and every request, with
\* any where clause, ordering and pagination, a query with from_type
\* functions, structs, enums, modules, databases or externs returns only
\* symbols of kind fn, struct, enum, module, database or extern respectively;
\* from_type all or * puts no restriction on kind: without where clause, limit
\* and offset it returns every symbol of the store.
C13_FromTypeIsKindFilter ==
    (ret.op = "execute" /\ ret.val.ok) =>
        LET request == ret.arg
            r == ret.val.val.symbols
        IN  /\ request.from_type \in { "functions", "structs", "enums", "modules",
                                       "databases", "externs" } =>
                  \A i \in 1..Len(r) : r[i].kind = KindOfFromType(request.from_type)
            /\ ( /\ request.from_type \in {"all", "*"}
                 /\ IsNone(request.where_clause)
                 /\ IsNone(request.limit) /\ IsNone(request.offset) ) =>
                  Range(r) = Range(symbols)

(***************************************************************************)
(* Properties of invalid requests (SpecInvalid)                            *)
(***************************************************************************)
\* the request has an unknown from_type, a where clause that is not valid
\* JSON, an order direction other than asc and desc, or an order field other
\* than id, kind, file and line
IsInvalid(request) ==
    \/ request.from_type \notin { "functions", "structs", "enums", "modules",
                                  "databases", "externs", "all", "*" }
    \/ request.where_clause = Some(None)
    \/ /\ IsSome(request.order_by)
       /\ LET parts == Unwrap(request.order_by)
          IN  \/ Len(parts) >= 2 /\ parts[2] \notin {"asc", "desc"}
              \/ Len(parts) >= 1 /\ parts[1] \notin {"id", "kind", "file", "line"}

IsInvalidQuery(r) == ~r.ok /\ r.err.kind = "InvalidQuery"

FailsValidation(source) ==
    \/ source = {}
    \/ source = {" "}
    \/ \E piece \in {"snippet", "id=", "kind=", "end"} : piece \notin source

\* C15: update_snippet with a source that fails the validation of
\* parse_snippet (empty or white space only, or missing any of the substrings
\* snippet, id=, kind=, end) returns success = false with a non-empty list of
\* errors and new_version 0, and leaves the store as it was, symbols and
\* version; with a source that passes, the store contains the id afterwards.
C15_UpdateSnippetValidates ==
    [][ ret'.op = "update_snippet" =>
          IF FailsValidation(ret'.arg.source)
          THEN /\ ret'.val.success = FALSE
               /\ Len(ret'.val.errors) > 0
               /\ ret'.val.new_version = 0
               /\ symbols' = symbols /\ version' = version
          ELSE contains(symbols', ret'.arg.id)
      ]_step

\* C15 witness: update_snippet has just refused a source without 'end' for an
\* id the store lacks, over a store that holds symbols at a version above 0.
C15_Witness ==
    /\ ret.op = "update_snippet"
    /\ ret.arg.source = {"snippet", "id=", "kind="}
    /\ ~ret.val.success
    /\ version > 0 /\ DOMAIN symbols # {}
    /\ ret.arg.id \notin DOMAIN symbols

\* C16: delete_snippet(id) returns true iff the store contained id before
\* the call; afterwards the store does not contain id and every other symbol
\* is still present; a delete_snippet(id) repeated immediately returns false
\* and leaves the symbols of the store unchanged.
C16_DeleteSnippet ==
    [][ ret'.op = "delete_snippet" =>
          LET id == ret'.arg
          IN  /\ ret'.val = contains(symbols, id)
              /\ ~contains(symbols', id)
              /\ DOMAIN symbols' = (DOMAIN symbols) \ {id}
              /\ (ret.op = "delete_snippet" /\ ret.arg = id) =>
                    /\ ret'.val = FALSE
                    /\ symbols' = symbols
      ]_step

\* C16 witness: delete_snippet has just deleted a symbol from a store that
\* still holds another one.
C16_Witness ==
    /\ ret.op = "delete_snippet" /\ ret.val = TRUE
    /\ ret.arg \notin DOMAIN symbols
    /\ DOMAIN symbols # {}

\* the ids reachable from the ids of S along calls edges, S included
RECURSIVE ReachableAlongCalls(_, _)
ReachableAlongCalls(syms, S) ==
    LET next == S \cup UNION { syms[i].calls : i \in S \cap DOMAIN syms }
    IN  IF next = S THEN S ELSE ReachableAlongCalls(syms, next)

\* every effect_closure is the union of the effects of the symbol and of the
\* symbols reachable from it along calls edges
EffectClosuresTransitive(syms) ==
    \A i \in DOMAIN syms :
        syms[i].effect_closure =
            UNION { syms[j].effects : j \in ReachableAlongCalls(syms, {i}) \cap DOMAIN syms }

\* C17: after any sequence of update_snippet and delete_snippet operations,
\* every symbol's effect_closure equals the union of its own effects and the
\* effects of every symbol reachable from it along calls edges: the two
\* operations take a store where this holds to a store where it holds, so
\* that a caller's effect_closure follows the effects its callees gain or
\* lose.
C17_EffectClosureMaintained ==
    [][ ( /\ ret'.op \in {"update_snippet", "delete_snippet"}
          /\ EffectClosuresTransitive(symbols) ) =>
            EffectClosuresTransitive(symbols')
      ]_step

(***************************************************************************)
(* Properties of the requirement validator (SpecReq)                       *)
(***************************************************************************)
\* the requirements of the report that some test covers
CoveredIds(report) ==
    { i \in DOMAIN report.requirements : report.requirements[i].covered_by # <<>> }

Ordinal(priority) ==
    CASE priority = Critical -> 0
      [] priority = High     -> 1
      [] priority = Medium   -> 2
      [] priority = Low      -> 3

\* the errors of the report that say requirement id is uncovered
UncoveredErrors(report, id) ==
    { k \in 1..Len(report.errors) :
        report.errors[k].type = "UncoveredRequirement" /\ report.errors[k].id = id }

\* C19: uncovered-threshold law. For every extraction and every
\* ValidatorConfig, the report of validate contains an UncoveredRequirement
\* error for requirement r, and then exactly one, iff r's covered_by is empty
\* and priority_ord(r.priority) <= priority_ord(config.warning_min_priority),
\* the ordinals being Critical = 0, High = 1, Medium = 2, Low = 3.
C19_UncoveredThreshold ==
    ret.op = "validate" =>
        LET report == ret.val
        IN  /\ \A priority \in Priorities : priority_ord(priority) = Ordinal(priority)
            /\ \A id \in DOMAIN report.requirements :
                  LET r == report.requirements[id]
                  IN  IF /\ r.covered_by = <<>>
                         /\ Ordinal(r.priority) <= Ordinal(config.warning_min_priority)
                      THEN Cardinality(UncoveredErrors(report, id)) = 1
                      ELSE UncoveredErrors(report, id) = {}
            /\ \A k \in 1..Len(report.errors) :
                  report.errors[k].type = "UncoveredRequirement" =>
                      report.errors[k].id \in DOMAIN report.requirements

\* C19 witness: with the threshold at High, the report holds the error for an
\* uncovered High requirement and none for an uncovered Medium one.
C19_Witness ==
    /\ ret.op = "validate"
    /\ config.warning_min_priority = High
    /\ \E a \in DOMAIN ret.val.requirements : \E b \in DOMAIN ret.val.requirements :
          /\ ret.val.requirements[a].priority = High
          /\ ret.val.requirements[b].priority = Medium
          /\ ret.val.requirements[a].covered_by = <<>>
          /\ ret.val.requirements[b].covered_by = <<>>
          /\ UncoveredErrors(ret.val, a) # {}
          /\ UncoveredErrors(ret.val, b) = {}

\* C20: coverage links are bidirectional and free of duplicates. After
\* validate, for every retained requirement r and every retained test t, t's
\* id is in r.covered_by iff r's id is in t.covers, and no test id occurs
\* twice in a covered_by list, also when a test lists a requirement twice.
C20_CoverageLinks ==
    ret.op = "validate" =>
        LET report == ret.val
        IN  \A r \in DOMAIN report.requirements :
              LET covered_by == report.requirements[r].covered_by
              IN  /\ \A t \in DOMAIN report.tests :
                        VecContains(covered_by, t) <=> VecContains(report.tests[t].covers, r)
                  /\ \A i, j \in 1..Len(covered_by) :
                        covered_by[i] = covered_by[j] => i = j

\* C20 witness: T-001 lists R-001 twice and T-002 lists it once; R-001 is
\* covered by the two tests, each once.
C20_Witness ==
    /\ ret.op = "validate"
    /\ DOMAIN ret.val.tests = {"T-001", "T-002"}
    /\ ret.val.tests["T-001"].covers = <<"R-001", "R-001">>
    /\ ret.val.tests["T-002"].covers = <<"R-002", "R-001">>
    /\ "R-001" \in DOMAIN ret.val.requirements
    /\ Len(ret.val.requirements["R-001"].covered_by) = 2

\* entries of covers that name a retained requirement
RECURSIVE WithoutDangling(_, _)
WithoutDangling(covers, requirements) ==
    IF covers = <<>> THEN <<>>
    ELSE IF Head(covers) \in DOMAIN requirements
         THEN <<Head(covers)>> \o WithoutDangling(Tail(covers), requirements)
         ELSE WithoutDangling(Tail(covers), requirements)

\* the extraction with every dangling reference removed from the tests
StripDangling(ext) ==
    [ ext EXCEPT !.tests =
        [ id \in DOMAIN ext.tests |->
            [ ext.tests[id] EXCEPT !.covers =
                WithoutDangling(ext.tests[id].covers, ext.requirements) ] ] ]

\* the NonexistentRequirement errors of a report for one (test, id) pair
NonexistentErrors(report, test_id, req_id) ==
    { i \in 1..Len(report.errors) :
        /\ report.errors[i].type = "NonexistentRequirement"
        /\ report.errors[i].test_id = test_id
        /\ report.errors[i].req_id = req_id }

\* the positions of a covers list that hold req_id
Occurrences(covers, req_id) == { k \in 1..Len(covers) : covers[k] = req_id }

\* C21: validate reports a NonexistentRequirement{test_id, req_id} exactly
\* for the pairs where the covers list of a retained test names an id that
\* is not a retained requirement, once for each entry of the list that names
\* it, and never for another pair; the dangling references change neither
\* covered_by of any requirement nor the summary: both are those of the
\* same extraction with the dangling references removed.
C21_DanglingReferences ==
    ret.op = "validate" =>
        LET report == ret.val
            stripped == validate(StripDangling(extraction), config,
                                 ret.arg.test_order, ret.arg.req_order)
        IN  /\ \A test_id \in DOMAIN extraction.tests :
                  \A req_id \in ReqIds \cup {"R-NONEXISTENT"} :
                      Cardinality(NonexistentErrors(report, test_id, req_id))
                        = IF req_id \in DOMAIN extraction.requirements THEN 0
                          ELSE Cardinality(Occurrences(extraction.tests[test_id].covers,
                                                       req_id))
            /\ \A i \in 1..Len(report.errors) :
                  report.errors[i].type = "NonexistentRequirement" =>
                      /\ report.errors[i].test_id \in DOMAIN extraction.tests
                      /\ report.errors[i].req_id \notin DOMAIN extraction.requirements
                      /\ VecContains(extraction.tests[report.errors[i].test_id].covers,
                                     report.errors[i].req_id)
            /\ report.requirements = stripped.requirements
            /\ report.summary = stripped.summary

\* C21 witness: the only requirement is covered by T-001 while T-002 names a
\* requirement no snippet declares; the report has the error and 100 percent.
C21_Witness ==
    /\ ret.op = "validate"
    /\ DOMAIN extraction.requirements = {"R-001"}
    /\ DOMAIN extraction.tests = {"T-001", "T-002"}
    /\ extraction.tests["T-001"].covers = <<"R-001">>
    /\ extraction.tests["T-002"].covers = <<"R-NONEXISTENT">>
    /\ NonexistentErrors(ret.val, "T-002", "R-NONEXISTENT") # {}
    /\ ret.val.requirements["R-001"].covered_by = <<"T-001">>
    /\ ret.val.summary.coverage_percent.num = 100 * ret.val.summary.coverage_percent.den

\* C23: under the default configuration an UncoveredRequirement is Error for
\* Critical, Warning for High and Info for Medium and Low; under the strict
\* configuration every UncoveredRequirement is Error; NonexistentRequirement,
\* DuplicateRequirement and DuplicateTest are Error under every
\* configuration; and severity_with_config with the default configuration
\* agrees with severity. Stated for every error of every report.
C23_Severity ==
    ret.op = "validate" =>
        \A i \in 1..Len(ret.val.errors) :
            LET e == ret.val.errors[i]
            IN  /\ e.type = "UncoveredRequirement" =>
                      /\ severity_with_config(e, default_config)
                            = CASE e.priority = Critical -> "Error"
                                [] e.priority = High -> "Warning"
                                [] e.priority \in {Medium, Low} -> "Info"
                      /\ severity_with_config(e, strict) = "Error"
                /\ e.type \in {"NonexistentRequirement", "DuplicateRequirement",
                                "DuplicateTest"} =>
                      /\ severity(e) = "Error"
                      /\ \A cfg \in ValidatorConfigs :
                            severity_with_config(e, cfg) = "Error"
                /\ severity_with_config(e, default_config) = severity(e)

\* C23 witness: a report with an uncovered requirement of each of two
\* priorities, High and Low, next to a duplicate test and a dangling
\* reference.
C23_Witness ==
    /\ ret.op = "validate"
    /\ \E i, j, k, l \in 1..Len(ret.val.errors) :
          /\ ret.val.errors[i].type = "UncoveredRequirement"
          /\ ret.val.errors[i].priority = High
          /\ ret.val.errors[j].type = "UncoveredRequirement"
          /\ ret.val.errors[j].priority = Low
          /\ ret.val.errors[k].type = "DuplicateTest"
          /\ ret.val.errors[l].type = "NonexistentRequirement"

\* C30: has_coverage_errors agrees with the configuration the report was
\* validated with: it is true if and only if some error of the report has
\* severity_with_config(config) = Error, and get_failures returns the errors
\* of that severity.
C30_FailuresFollowConfig ==
    /\ ret.op = "has_coverage_errors" =>
          ( ret.val <=> \E i \in 1..Len(ret.arg.errors) :
                           severity_with_config(ret.arg.errors[i], config) = "Error" )
    /\ ret.op = "get_failures" =>
          \A i \in 1..Len(ret.arg.errors) :
              VecContains(ret.val, ret.arg.errors[i])
                <=> severity_with_config(ret.arg.errors[i], config) = "Error"

\* the declarations of one kind of section in a program, in snippet and
\* section order, each with the id of its snippet
RECURSIVE DeclsOfSections(_, _, _)
DeclsOfSections(sections, snippet_id, type) ==
    IF sections = <<>> THEN <<>>
    ELSE LET section == Head(sections)
             decls == IF section.type # type THEN <<>>
                      ELSE IF type = "Requires" THEN section.requirements
                      ELSE section.tests
         IN  [ i \in 1..Len(decls) |-> [ decl |-> decls[i], snippet_id |-> snippet_id ] ]
               \o DeclsOfSections(Tail(sections), snippet_id, type)

RECURSIVE DeclsOfSnippets(_, _)
DeclsOfSnippets(snippets, type) ==
    IF snippets = <<>> THEN <<>>
    ELSE DeclsOfSections(Head(snippets).sections, Head(snippets).id, type)
           \o DeclsOfSnippets(Tail(snippets), type)

DeclsOf(program, type) ==
    IF program.type = "Snippets" THEN DeclsOfSnippets(program.snippets, type) ELSE <<>>

\* the extraction keeps the first of the declarations decls of each id and
\* reports every later one: kept is the retained map, Info what extract
\* stores for a declaration, errors the errors of type error_type
FirstKept(decls, kept, errors, error_type, info) ==
    LET At(id) == { i \in 1..Len(decls) : decls[i].decl.id = id }
        First(id) == CHOOSE i \in At(id) : \A j \in At(id) : i <= j
        Reported(id, snippet_id) ==
            { i \in 1..Len(errors) :
                /\ errors[i].type = error_type
                /\ errors[i].id = id
                /\ errors[i].second = snippet_id }
    IN  /\ DOMAIN kept = { decls[i].decl.id : i \in 1..Len(decls) }
        /\ \A id \in DOMAIN kept : kept[id] = info[First(id)]
        /\ \A i \in 1..Len(errors) :
              errors[i].type = error_type =>
                  /\ errors[i].id \in DOMAIN kept
                  /\ errors[i].first = decls[First(errors[i].id)].snippet_id
        /\ \A id \in DOMAIN kept : \A snippet_id \in {"a.fn", "b.fn"} :
              Cardinality(Reported(id, snippet_id))
                = Cardinality({ i \in At(id) \ {First(id)} :
                                  decls[i].snippet_id = snippet_id })

\* C22: extract keeps, of the requirements (or tests) of one id, the first in
\* snippet and section order with all its attributes; each later one adds
\* exactly one DuplicateRequirement (or DuplicateTest) error whose first
\* field is the snippet of the kept one and whose second field is the
\* snippet of the later one; the retained map has one entry per distinct
\* id, and there is no other error.
C22_DuplicateIds ==
    ret.op = "extract" =>
        LET reqs == DeclsOf(ret.arg, "Requires")
            tests == DeclsOf(ret.arg, "Tests")
            result == ret.val
        IN  /\ FirstKept(reqs, result.requirements, result.errors,
                         "DuplicateRequirement",
                         [ i \in 1..Len(reqs) |->
                             [ id |-> reqs[i].decl.id,
                               priority |-> IF reqs[i].decl.priority = <<>> THEN Medium
                                            ELSE reqs[i].decl.priority[1],
                               snippet_id |-> reqs[i].snippet_id,
                               covered_by |-> <<>> ] ])
            /\ FirstKept(tests, result.tests, result.errors, "DuplicateTest",
                         [ i \in 1..Len(tests) |->
                             [ id |-> tests[i].decl.id,
                               covers |-> tests[i].decl.covers,
                               snippet_id |-> tests[i].snippet_id ] ])
            /\ Len(result.errors)
                  = (Len(reqs) - Cardinality(DOMAIN result.requirements))
                    + (Len(tests) - Cardinality(DOMAIN result.tests))
            /\ extraction = result

\* C22 witness: R-001 is declared three times, twice in a.fn (first with
\* priority High, then without) and once in b.fn; the High one is kept and
\* there are two errors, (a.fn, a.fn) and then (a.fn, b.fn).
C22_Witness ==
    /\ ret.op = "extract"
    /\ ret.arg.type = "Snippets"
    /\ Len(ret.arg.snippets) = 2
    /\ ret.arg.snippets[1].sections =
          << [ type |-> "Requires",
               requirements |-> << [ id |-> "R-001", priority |-> Some(High) ],
                                   [ id |-> "R-001", priority |-> None ] >> ] >>
    /\ ret.arg.snippets[2].sections =
          << [ type |-> "Requires",
               requirements |-> << [ id |-> "R-001", priority |-> None ] >> ] >>
    /\ ret.val.requirements["R-001"].priority = High
    /\ ret.val.errors = << DuplicateRequirement("R-001", "a.fn", "a.fn"),
                           DuplicateRequirement("R-001", "a.fn", "b.fn") >>

EngineOps == {"start_query", "poll_query", "process_query", "get_result", "cancel_query"}

\* C26: once the status of a handle is Complete, Error or Cancelled, no
\* start_query, poll_query, process_query, get_result or cancel_query, on
\* this or another handle and whatever the store holds, changes its status
\* or its stored result; and process_query or cancel_query on one handle
\* changes neither the status nor the request nor the result of another.
C26_TerminalAbsorbing ==
    [][ /\ ret'.op \in EngineOps =>
             \A h \in DOMAIN pending :
                 pending[h].status \in Terminal =>
                     /\ h \in DOMAIN pending'
                     /\ pending'[h].status = pending[h].status
                     /\ pending'[h].result = pending[h].result
        /\ ret'.op \in {"process_query", "cancel_query"} =>
             \A k \in (DOMAIN pending) \ {ret'.arg} :
                 /\ k \in DOMAIN pending'
                 /\ pending'[k].status = pending[k].status
                 /\ pending'[k].request = pending[k].request
                 /\ pending'[k].result = pending[k].result
      ]_step

\* C26 witness: cancel_query has just been called on a Complete handle
\* while another handle is Pending, and the store has changed since the
\* query completed.
C26_Witness ==
    /\ ret.op = "cancel_query"
    /\ ret.arg \in DOMAIN pending
    /\ pending[ret.arg].status = "Complete"
    /\ Unwrap(pending[ret.arg].result).val.version < version
    /\ \E k \in DOMAIN pending : k # ret.arg /\ pending[k].status = "Pending"

\* C27: poll_query returns Error for every handle that is not in the table,
\* a handle never issued as well as one that cleanup_completed removed, and
\* get_result returns nothing for such a handle.
C27_UnknownHandle ==
    /\ (ret.op = "poll_query" /\ ret.arg \notin DOMAIN pending) => ret.val = "Error"
    /\ (ret.op = "get_result" /\ ret.arg \notin DOMAIN pending) => ret.val = None

\* C27 witness: poll_query has returned Error for a handle that start_query
\* issued and cleanup_completed has removed since.
C27_Witness ==
    /\ ret.op = "poll_query"
    /\ ret.arg \in issued
    /\ ret.arg \notin DOMAIN pending
    /\ ret.val = "Error"

\* C28: a successful update_snippet(id) replaces the whole symbol with a
\* fresh one of kind fn, file <runtime> and no calls, whatever the kind and
\* the calls of the stored symbol were: afterwards calls(id) is empty, no
\* symbol's called_by contains id, and called_by(id) is exactly the set of
\* the symbols whose calls contain id.
C28_UpdateSnippetReplaces ==
    [][ (ret'.op = "update_snippet" /\ ret'.val.success) =>
          LET id == ret'.arg.id
          IN  /\ id \in DOMAIN symbols'
              /\ symbols'[id].kind = "fn"
              /\ symbols'[id].file = "<runtime>"
              /\ symbols'[id].calls = {}
              /\ \A k \in DOMAIN symbols' : id \notin symbols'[k].called_by
              /\ symbols'[id].called_by
                    = { k \in DOMAIN symbols' : id \in symbols'[k].calls }
              /\ \A k \in DOMAIN symbols' \ {id} :
                    k \in DOMAIN symbols /\ symbols'[k].calls = symbols[k].calls
      ]_step

\* C28 witness: update_snippet(auth.login) has succeeded on a store where
\* db.query, of kind struct, calls auth.login.
C28_Witness ==
    /\ ret.op = "update_snippet"
    /\ ret.val.success
    /\ ret.arg.id = "auth.login"
    /\ "db.query" \in DOMAIN symbols
    /\ symbols["db.query"].kind = "struct"
    /\ symbols["auth.login"].called_by = {"db.query"}

\* C29: recompile_snippet never reports success and never returns wasm; with
\* a source that fails the validation it returns the validation errors and
\* leaves the store unchanged; with a source that passes it upserts the
\* symbol and increases the version of the store, and still returns
\* success = false, with the error of compile_snippet.
C29_RecompileSnippet ==
    [][ ret'.op = "recompile_snippet" =>
          LET id == ret'.arg.id
              source == ret'.arg.source
          IN  /\ ret'.val.success = FALSE
              /\ ret'.val.wasm = None
              /\ Len(ret'.val.errors) > 0
              /\ IF FailsValidation(source)
                 THEN /\ ret'.val.errors = parse_snippet(source).errors
                      /\ symbols' = symbols /\ version' = version
                 ELSE /\ ret'.val.errors = compile_snippet(symbols', id).errors
                      /\ version' > version
                      /\ contains(symbols', id)
                      /\ symbols'[id].file = "<runtime>"
                      /\ symbols'[id].calls = {}
      ]_step

\* C29 witness: recompile_snippet has failed with the error of
\* compile_snippet for an id the store now holds as a placeholder, although
\* the source passed the validation.
C29_Witness ==
    /\ ret.op = "recompile_snippet"
    /\ ~FailsValidation(ret.arg.source)
    /\ ~ret.val.success
    /\ ret.val.errors = compile_snippet(symbols, ret.arg.id).errors
    /\ ret.arg.id \in DOMAIN symbols
    /\ symbols[ret.arg.id].file = "<runtime>"
    /\ version > 0

\* the byte at offset b lies in a line comment: it is one of the two
\* characters of a // or comes after one with no line break in between
InLineComment(source, b) ==
    \E p \in 1..(b + 1) :
        /\ p + 1 <= Len(source)
        /\ source[p] = "/" /\ source[p + 1] = "/"
        /\ \A q \in p..(b + 1) : source[q] # "\n"

\* C24: for every source, tokenize returns a token list whose last token,
\* and no other, is Eof with span [len, len); a character no rule matches
\* yields an Error token and the tokens after it are still produced; the
\* spans of the tokens are non-empty, in increasing order and do not
\* overlap, and every byte that is neither white space nor part of a line
\* comment is covered by exactly one of them.
C24_LexerTotality ==
    ret.op = "tokenize" =>
        LET source == ret.arg.source
            tokens == ret.val
            n == Len(tokens)
            len == Len(source)
            Covering(b) == { i \in 1..(n - 1) :
                               tokens[i].span.start <= b /\ b < tokens[i].span.end }
        IN  /\ n >= 1
            /\ tokens[n] = Token("Eof", Span(len, len))
            /\ \A i \in 1..(n - 1) :
                  /\ tokens[i].kind # "Eof"
                  /\ 0 <= tokens[i].span.start
                  /\ tokens[i].span.start < tokens[i].span.end
                  /\ tokens[i].span.end <= tokens[i + 1].span.start
            /\ \A b \in 0..(len - 1) :
                  /\ Cardinality(Covering(b)) <= 1
                  /\ (source[b + 1] \notin Whitespace /\ ~InLineComment(source, b))
                        => Cardinality(Covering(b)) = 1
                  /\ (source[b + 1] = "@" /\ Covering(b) # {})
                        => \A i \in Covering(b) :
                               tokens[i].span.start = b => tokens[i].kind = "Error"

\* C24 witness: a@5 gives Ident [0,1), Error [1,2), Int [2,3) and Eof [3,3).
C24_Witness ==
    /\ ret.op = "tokenize"
    /\ ret.arg.source = <<"a", "@", "5">>
    /\ ret.val = << Token("Ident", Span(0, 1)), Token("Error", Span(1, 2)),
                    Token("Int", Span(2, 3)), Token("Eof", Span(3, 3)) >>

\* the relations a program declares, as edges
DeclaredRelations(relations) ==
    UNION { { Edge(i - 1, relations[i][k].to, relations[i][k].type, TRUE) :
                k \in 1..Len(relations[i]) } : i \in 1..Len(relations) }

\* the inverse edge a declared relation must have
InverseOf(d) ==
    Edge(d.to, d.from,
         CASE d.type = "contains" -> "contained_by"
           [] d.type = "contained_by" -> "contains"
           [] d.type = "describes" -> "described_by",
         FALSE)

\* a node declares a relation and its target declares the inverse back
MutualDeclaration(relations) ==
    \E d, e \in DeclaredRelations(relations) : SameEdge(e, InverseOf(d))

====
